---- MODULE Spec2Model ----
(***************************************************************************)
(* Replicated slot engine of amberio: the per-slot metadata store, the     *)
(* object handlers of the server (PUT with two-phase commit, DELETE, GET), *)
(* the health loop and the read path with head discovery; and the cluster  *)
(* bootstrap that every node runs before it serves (Spec is the slot       *)
(* engine, ClusterSpec the bootstrap).                                     *)
(*                                                                         *)
(* One slot is modelled.  A row of the blobs table is a record             *)
(* [path, version, blob_id, tomb]; tomb abstracts "tombstoned_at IS NOT    *)
(* NULL".  A blob id (ULID) is the number of the write that created it.    *)
(***************************************************************************)
EXTENDS Integers, Sequences, FiniteSets, TLC

\* ------------------------------------------------------------------ bounds
MaxTx == 2            \* number of PUT requests that are accepted
MaxGen == 2           \* largest version a client names or the server picks
MinWriteReplicas == 1 \* config.replication.min_write_replicas of the deployment
MaxRuns == 2          \* number of init runs (processes started with a config file)
MaxSize == 2          \* largest body size, in bytes
MaxPartSize == 2      \* largest part size and chunk size, in bytes
MaxSlots == 4         \* number of slots of the cluster
MaxU64 == 7           \* largest value of the 64-bit unsigned integers of the model
MaxU32 == 3           \* largest value of the 32-bit unsigned integers of the model

Nodes == {"n1", "n2"}
Paths == {"p"}
TxIds == 1..MaxTx
Versions == 1..MaxGen
NoVersion == 0        \* the query carries no version (Option::None)

VARIABLES
    store,      \* store[n]: rows of the blobs table of node n's slot
    chunks,     \* chunks[n]: blob ids whose chunks are in n's chunk store
    hasSlot,    \* nodes whose slot manager holds the slot
    health,     \* nodes with a health record for the slot in the registry
    tx,         \* tx[t]: the coordinator's transaction and the handler's position
    prepared,   \* prepared[n]: transactions staged by n's participant
    nextTx,     \* next blob id / transaction id
    bootstrap,  \* the bootstrap record of the registry: its bytes, or NoBytes
    config,     \* config[n]: the configuration file of node n
    run,        \* run[i]: an init run, its position and what it returned
    dirs,       \* nodes whose local slot root directories exist
    blobMeta,   \* the BlobMeta of the current head of the blob that is read
    partEntries,\* partEntries[part_no]: the part entry of the local metadata store
    partFiles,  \* the part files of the local part store
    objMeta,    \* the BlobMeta (size, chunks) of the object that put_object stored
    chunkStore, \* the chunk files of the object
    readOut,    \* the last read request and what it returned
    heads,      \* the heads, with payload and hash, of the local metadata store
    chunkDir,   \* the files under blobs/<blob_id>/chunks of the chunk store
    writers,    \* writers[w]: a put_chunk in progress and its position
    chunkOut,   \* the last call of the chunk store and what it returned
    slotMgr,    \* slotMgr[s]: the slot manager's record of slot s on the node
    slotStores, \* slotStores[s]: the heads and the part files of slot s
    callers,    \* callers[c]: a request on the node and its position
    registered, \* the nodes that have registered in the registry
    assigned,   \* assigned[n]: the slots node n gave itself at its start
    scanned     \* the heads the init scan has inserted in the local store

engineVars == <<store, chunks, hasSlot, health, tx, prepared, nextTx>>
clusterVars == <<bootstrap, config, run, dirs>>
readVars == <<blobMeta, partEntries, partFiles, objMeta, chunkStore, readOut>>
chunkVars == <<chunkDir, writers, chunkOut>>
slotVars == <<slotMgr, slotStores, callers, registered, assigned, scanned>>
localVars == <<heads, chunkDir, writers, chunkOut, slotMgr, slotStores, callers,
               registered, assigned, scanned>>
vars == <<store, chunks, hasSlot, health, tx, prepared, nextTx,
          bootstrap, config, run, dirs,
          blobMeta, partEntries, partFiles, objMeta, chunkStore, readOut,
          heads, chunkDir, writers, chunkOut, slotMgr, slotStores, callers,
          registered, assigned, scanned>>

\* ------------------------------------------------------- metadata store
Max(S) == CHOOSE x \in S : \A y \in S : y <= x

RowsOf(S, path) == {r \in S : r.path = path}

NoRow == [path |-> "none", version |-> 0, blob_id |-> 0, tomb |-> FALSE]

\* INSERT OR REPLACE INTO blobs ... with UNIQUE (path, version)
put_blob(S, meta) ==
    {r \in S : ~(r.path = meta.path /\ r.version = meta.version)} \cup {meta}

\* SELECT ... WHERE path = ?1 AND version = ?2
get_blob(S, path, version) ==
    LET hit == {r \in RowsOf(S, path) : r.version = version}
    IN  IF hit = {} THEN NoRow ELSE CHOOSE r \in hit : TRUE

\* SELECT ... WHERE path = ?1 AND tombstoned_at IS NULL ORDER BY version DESC LIMIT 1
get_latest_blob(S, path) ==
    LET live == {r \in RowsOf(S, path) : ~r.tomb}
    IN  IF live = {} THEN NoRow
        ELSE CHOOSE r \in live : \A q \in live : q.version <= r.version

\* SELECT MAX(version) FROM blobs WHERE path = ?1, unwrap_or(0)
get_max_version(S, path) ==
    IF RowsOf(S, path) = {} THEN 0
    ELSE Max({r.version : r \in RowsOf(S, path)})

\* UPDATE blobs SET tombstoned_at = now WHERE path, version AND tombstoned_at IS NULL
delete_blob_affected(S, path, version) ==
    \E r \in RowsOf(S, path) : r.version = version /\ ~r.tomb

delete_blob(S, path, version) ==
    {IF r.path = path /\ r.version = version /\ ~r.tomb
        THEN [r EXCEPT !.tomb = TRUE] ELSE r : r \in S}

\* SELECT blob_id FROM blobs ORDER BY blob_id DESC LIMIT 1 is Some
get_latest_blob_id_is_some(S) == S # {}

\* ------------------------------------------------------------ helpers
SeqsOf(S) ==
    {s \in [1..Cardinality(S) -> S] : \A i, j \in 1..Cardinality(S) : i # j => s[i] # s[j]}

Range(s) == {s[i] : i \in 1..Len(s)}

\* registry.get_healthy_replicas: the health records of the slot, in key order
NodeOrder == <<"n1", "n2">>
get_healthy_replicas == SelectSeq(NodeOrder, LAMBDA m : m \in health)

NoTx == [state |-> "Init", pc |-> "idle", coord |-> "none", parts |-> <<>>,
         idx |-> 0, votes |-> [n \in Nodes |-> "None"],
         path |-> "none", version |-> 0]

\* a response: the status, and the version and blob id of the object it carries
Resp(status, version, blob) ==
    [status |-> status, version |-> version, blob_id |-> blob]

BlobMetaOf(t) ==
    [path |-> tx[t].path, version |-> tx[t].version, blob_id |-> t, tomb |-> FALSE]

\* ------------------------------------------------- bootstrap (values)
RunIds == 1..MaxRuns
NoBytes == <<>>
NoState == [initialized_at |-> 0, current_node |-> "none", nodes |-> {},
            replication |-> [min_write_replicas |-> 0, total_slots |-> 0],
            initialized_by |-> "none"]
NoRun == [pc |-> "idle", node |-> "none", proposed |-> NoState,
          attempted |-> FALSE, won |-> FALSE, dirs |-> FALSE,
          scan_slots |-> 0, error |-> "none", result |-> NoState,
          runtime |-> NoState.replication]

\* the replication sections and node lists that configuration files carry
ReplicationConfigs == {[min_write_replicas |-> 1, total_slots |-> 4],
                       [min_write_replicas |-> 2, total_slots |-> 8]}
NodeLists == {{"n1", "n2"}, {"n1"}}
Configs == [current_node : Nodes, nodes : NodeLists,
            replication : ReplicationConfigs, init_scan : BOOLEAN]

\* no init run has started and the registry holds no bootstrap record
ClusterIdle ==
    /\ bootstrap = NoBytes
    /\ run = [i \in RunIds |-> NoRun]
    /\ dirs = {}

\* ------------------------------------------------- body reads (values)
\* the body of the blob: byte k (from 0) has the value k + 1
Body(size) == [k \in 1..size |-> k]

\* compute_hash: SHA-256, free of collisions
compute_hash(data) == <<"sha256", data>>

\* Rust's data[a..b]
Slice(data, a, b) == SubSeq(data, a + 1, b)

NoEntry == [present |-> FALSE, sha256 |-> <<>>, length |-> 0,
            external_path |-> <<>>, archive_url |-> FALSE]
NoRange == [start |-> -1, end |-> -1]
NoOut == [op |-> "none", range |-> NoRange, outcome |-> "none",
          body |-> <<>>, body_range |-> NoRange, fetched |-> {},
          part |-> -1, reused |-> FALSE]

\* no blob is being read
ReadIdle ==
    /\ blobMeta = [size_bytes |-> 0, part_size |-> 1, part_count |-> 0,
                   archive_url |-> FALSE]
    /\ partEntries = [k \in {} |-> NoEntry]
    /\ partFiles = {}
    /\ objMeta = [size |-> 0, chunks |-> <<>>]
    /\ chunkStore = {}
    /\ readOut = NoOut

\* the callers of put_chunk that run at the same time
Writers == {"w1", "w2"}
NoWriter == [pc |-> "idle", blob_id |-> "none", data |-> <<>>, fd |-> "none"]
NoChunkOut == [op |-> "none", blob_id |-> "none", data |-> <<>>, chunk_id |-> <<>>]

\* the slots of a node, the paths that fall into them and the requests that
\* run at the same time
SlotIds == {"s1", "s2"}
SlotPaths == {"p", "q"}
Callers == {"c1", "c2"}
NoSlot == [inited |-> FALSE, dir_creates |-> 0, db_opens |-> 0]
NoSlotStore == [heads |-> {}, parts |-> {}]
NoCaller == [pc |-> "idle", op |-> "none", path |-> "none", version |-> 0,
             has_slot |-> TRUE, result |-> "none"]

\* the servers of a group, and the slots of a server that has not assigned
\* itself any yet
StartNodes == {"n1", "n2", "n3"}
NotAssigned == {-1}
NoStart ==
    /\ registered = {}
    /\ assigned = [n \in StartNodes |-> NotAssigned]
    /\ scanned = {}

\* the node-local stores are empty
LocalIdle ==
    /\ heads = {}
    /\ chunkDir = {}
    /\ writers = [w \in Writers |-> NoWriter]
    /\ chunkOut = NoChunkOut
    /\ slotMgr = [s \in SlotIds |-> NoSlot]
    /\ slotStores = [s \in SlotIds |-> NoSlotStore]
    /\ callers = [c \in Callers |-> NoCaller]
    /\ NoStart

\* ---------------------------------------------------------------- Init
Init ==
    /\ ClusterIdle
    /\ ReadIdle
    /\ LocalIdle
    /\ config = [n \in Nodes |-> [current_node |-> n, nodes |-> Nodes,
                                  replication |-> [min_write_replicas |-> MinWriteReplicas,
                                                   total_slots |-> 4],
                                  init_scan |-> FALSE]]
    /\ store = [n \in Nodes |-> {}]
    /\ chunks = [n \in Nodes |-> {}]
    /\ hasSlot \in SUBSET Nodes
    /\ health \in SUBSET hasSlot
    /\ tx = [t \in TxIds |-> NoTx]
    /\ prepared = [n \in Nodes |-> {}]
    /\ nextTx = 1

\* --------------------------------------------- two-phase commit (roles)
\* TwoPhaseCommit::begin_transaction: a transaction in state Preparing
begin_transaction(n, parts, p, version) ==
    [state |-> "Preparing", pc |-> IF parts = <<>> THEN "decide" ELSE "prepare",
     coord |-> n, parts |-> parts,
     idx |-> 1, votes |-> [m \in Nodes |-> "None"], path |-> p, version |-> version]

\* TwoPhaseParticipant::prepare: Yes iff the participant's store has no head
\* with generation >= the proposed one and no other transaction staged the
\* same generation of the path there first
participant_prepare(n, t) ==
    IF \/ get_max_version(store[n], tx[t].path) >= tx[t].version
       \/ \E u \in prepared[n] \ {t} :
              tx[u].path = tx[t].path /\ tx[u].version = tx[t].version
    THEN "No" ELSE "Yes"

\* TwoPhaseCommit::record_vote
record_vote(T, participant, vote) == [T EXCEPT !.votes[participant] = vote]

\* TwoPhaseCommit::can_commit: every participant's recorded vote is Yes
can_commit(T) == \A i \in 1..Len(T.parts) : T.votes[T.parts[i]] = "Yes"

\* ----------------------------------------------------------- put_object
\* put_object checking only that the node holds the slot
put_object_rejected_by_slot_only(n) ==
    IF n \notin hasSlot THEN "503" ELSE "none"

\* the checks of put_object before the version is determined: 503 for fewer
\* healthy replicas than min_write_replicas, 503 for a slot that get_slot
\* does not find
put_object_rejected(n) ==
    IF Len(get_healthy_replicas) < MinWriteReplicas THEN "503"
    ELSE IF n \notin hasSlot THEN "503"
    ELSE "none"

\* the version put_object gives the blob
put_object_version(n, p, qv) ==
    IF qv # NoVersion THEN qv ELSE get_max_version(store[n], p) + 1

\* registry.get_healthy_replicas, the min_write_replicas check, get_slot,
\* the version, the blob id, store_chunks and begin_transaction
put_object(n, p, qv) ==
    IF put_object_rejected(n) # "none"
    THEN UNCHANGED vars
    ELSE /\ nextTx <= MaxTx
         /\ put_object_version(n, p, qv) <= MaxGen
         /\ chunks' = [chunks EXCEPT ![n] = @ \cup {nextTx}]
         /\ tx' = [tx EXCEPT ![nextTx] =
                begin_transaction(n, get_healthy_replicas, p, put_object_version(n, p, qv))]
         /\ nextTx' = nextTx + 1
         /\ UNCHANGED <<store, hasSlot, health, prepared>>

\* perform_2pc, phase 1, one participant of the loop
perform_2pc_prepare(t) ==
    /\ tx[t].pc = "prepare"
    /\ LET participant == tx[t].parts[tx[t].idx]
           vote == IF participant = tx[t].coord
                   THEN participant_prepare(participant, t)
                   ELSE "Yes"
       IN  /\ tx' = [tx EXCEPT ![t] =
                  [record_vote(tx[t], participant, vote) EXCEPT
                      !.idx = @ + 1,
                      !.pc = IF tx[t].idx = Len(tx[t].parts) THEN "decide" ELSE "prepare"]]
           /\ prepared' = IF participant = tx[t].coord /\ vote = "Yes"
                          THEN [prepared EXCEPT ![participant] = @ \cup {t}]
                          ELSE prepared
    /\ UNCHANGED <<store, chunks, hasSlot, health, nextTx>>

\* perform_2pc deciding Commit as soon as one recorded vote is Yes
perform_2pc_decide_any_yes(t) ==
    /\ tx[t].pc = "decide"
    /\ IF \E i \in 1..Len(tx[t].parts) : tx[t].votes[tx[t].parts[i]] = "Yes"
       THEN tx' = [tx EXCEPT ![t].state = "Committed", ![t].pc = "apply"]
       ELSE tx' = [tx EXCEPT ![t].state = "Aborted", ![t].pc = "done"]
    /\ UNCHANGED <<store, chunks, hasSlot, health, prepared, nextTx>>

\* perform_2pc, phase 2: can_commit, then commit or abort; an abort returns
\* the TwoPhaseCommit error, which put_object answers with 500 (put_response)
perform_2pc_decide(t) ==
    /\ tx[t].pc = "decide"
    /\ IF can_commit(tx[t])
       THEN tx' = [tx EXCEPT ![t].state = "Committed", ![t].pc = "apply"]
       ELSE tx' = [tx EXCEPT ![t].state = "Aborted", ![t].pc = "done"]
    /\ UNCHANGED <<store, chunks, hasSlot, health, prepared, nextTx>>

\* the answer of put_object to a request whose perform_2pc has returned
put_response(t) ==
    IF tx[t].pc # "done" THEN "none"
    ELSE IF tx[t].state = "Committed" THEN "201" ELSE "500"

\* perform_2pc after commit: put_blob on the local store if the coordinator
\* is a participant; put_object then answers 201 (put_response)
perform_2pc_apply(t) ==
    /\ tx[t].pc = "apply"
    /\ store' = IF tx[t].coord \in Range(tx[t].parts)
                THEN [store EXCEPT ![tx[t].coord] = put_blob(@, BlobMetaOf(t))]
                ELSE store
    /\ tx' = [tx EXCEPT ![t].pc = "done"]
    /\ UNCHANGED <<chunks, hasSlot, health, prepared, nextTx>>

\* -------------------------------------------------------- delete_object
\* the version delete_object tombstones: the named one, else the maximum
delete_object_version(n, p, qv) ==
    IF qv # NoVersion THEN qv ELSE get_max_version(store[n], p)

\* the answer of delete_object
delete_object_response(n, p, qv) ==
    IF n \notin hasSlot THEN Resp("400", 0, 0)
    ELSE IF qv = NoVersion /\ ~(get_max_version(store[n], p) > 0)
    THEN Resp("404", 0, 0)
    ELSE IF delete_blob_affected(store[n], p, delete_object_version(n, p, qv))
    THEN Resp("200", delete_object_version(n, p, qv), 0)
    ELSE Resp("404", delete_object_version(n, p, qv), 0)

delete_object(n, p, qv) ==
    /\ store' = IF delete_object_response(n, p, qv).status = "200"
                THEN [store EXCEPT ![n] =
                         delete_blob(@, p, delete_object_version(n, p, qv))]
                ELSE store
    /\ UNCHANGED <<chunks, hasSlot, health, tx, prepared, nextTx>>

\* ----------------------------------------------------------- get_object
get_blob_local(n, p, qv) ==
    IF qv # NoVersion THEN get_blob(store[n], p, qv)
    ELSE get_latest_blob(store[n], p)

\* the local branch of get_object: get_blob_local, then stream_blob
get_object_local(n, p, qv) ==
    LET meta == get_blob_local(n, p, qv)
    IN  IF meta = NoRow THEN Resp("404", 0, 0)
        ELSE IF meta.blob_id \in chunks[n]
        THEN Resp("200", meta.version, meta.blob_id)
        ELSE Resp("500", meta.version, 0)

\* the answer of get_object; proxy_to_replica forwards the request to the
\* first healthy replica, which holds the slot
get_object_response(n, p, qv) ==
    IF n \in hasSlot THEN get_object_local(n, p, qv)
    ELSE IF get_healthy_replicas = <<>> THEN Resp("404", 0, 0)
    ELSE get_object_local(get_healthy_replicas[1], p, qv)

\* get_object reads and answers; it writes nothing
get_object(n, p, qv) ==
    /\ get_object_response(n, p, qv).status \in {"200", "404", "500"}
    /\ UNCHANGED vars

\* ---------------------------------------------------- health_check_loop
health_check_loop(n) ==
    /\ n \in hasSlot
    /\ get_latest_blob_id_is_some(store[n])
    /\ health' = health \cup {n}
    /\ UNCHANGED <<store, chunks, hasSlot, tx, prepared, nextTx>>

\* ------------------------------------------------- read path (head only)
\* MetadataStore::get_current_head: the head with the maximum generation
get_current_head(S, path) ==
    IF RowsOf(S, path) = {} THEN NoRow
    ELSE CHOOSE r \in RowsOf(S, path) : \A q \in RowsOf(S, path) : q.version <= r.version

\* upsert_meta_with_payload / insert_tombstone_with_payload: the head is
\* inserted iff no head with generation >= its generation exists
upsert_with_payload(S, head) ==
    IF get_max_version(S, head.path) >= head.version THEN S ELSE S \cup {head}

\* apply_remote_head_locally: path and generation are taken from the call
apply_remote_head_locally(S, path, head) ==
    upsert_with_payload(S, [head EXCEPT !.path = path])

\* ClusterClient::fetch_remote_head: the peer's current head
fetch_remote_head(node, path) == get_current_head(store[node], path)

\* the peers of ensure_head_available, in the order of the replica list
RECURSIVE FirstRemoteHead(_, _, _)
FirstRemoteHead(peers, i, path) ==
    IF i > Len(peers) THEN NoRow
    ELSE IF fetch_remote_head(peers[i], path) # NoRow
    THEN fetch_remote_head(peers[i], path)
    ELSE FirstRemoteHead(peers, i + 1, path)

PeersOf(replicas, n) == SelectSeq(replicas, LAMBDA m : m # n)

\* ensure_head_available asking no peer
ensure_head_available_local_only(n, path, replicas) ==
    get_current_head(store[n], path)

\* ensure_head_available asking the peers although a local head exists, and
\* returning the newest head found
ensure_head_available_newest(n, path, replicas) ==
    LET local == get_current_head(store[n], path)
        remote == FirstRemoteHead(PeersOf(replicas, n), 1, path)
    IN  IF local = NoRow THEN remote
        ELSE IF remote # NoRow /\ remote.version > local.version THEN remote
        ELSE local

\* the head ensure_head_available returns
ensure_head_available(n, path, replicas) ==
    IF get_current_head(store[n], path) # NoRow
    THEN get_current_head(store[n], path)
    ELSE FirstRemoteHead(PeersOf(replicas, n), 1, path)

\* the outcome of ReadBlobOperation::run with include_body = false
read_blob_outcome(n, p, replicas) ==
    LET head == ensure_head_available(n, p, replicas)
    IN  IF head = NoRow THEN Resp("NotFound", 0, 0)
        ELSE IF head.tomb THEN Resp("Deleted", head.version, 0)
        ELSE Resp("Found", head.version, head.blob_id)

\* ReadBlobOperation::run with include_body = false: ensure_store, then head
\* discovery with the local apply of the head a peer returned
read_blob(n, p, replicas) ==
    LET head == ensure_head_available(n, p, replicas)
        local == get_current_head(store[n], p)
    IN  /\ hasSlot' = hasSlot \cup {n}
        /\ store' = IF local = NoRow /\ head # NoRow
                    THEN [store EXCEPT ![n] = apply_remote_head_locally(@, p, head)]
                    ELSE store
        /\ UNCHANGED <<chunks, health, tx, prepared, nextTx>>

\* ----------------------------------------------------------------- Next
PutObject ==
    /\ UNCHANGED readVars
    /\ UNCHANGED localVars
    /\ \E n \in Nodes, p \in Paths, qv \in {NoVersion} \cup Versions : put_object(n, p, qv)
    /\ UNCHANGED clusterVars
Prepare ==
    /\ UNCHANGED readVars
    /\ UNCHANGED localVars
    /\ \E t \in TxIds : perform_2pc_prepare(t)
    /\ UNCHANGED clusterVars
Decide ==
    /\ UNCHANGED readVars
    /\ UNCHANGED localVars
    /\ \E t \in TxIds : perform_2pc_decide(t)
    /\ UNCHANGED clusterVars
Apply ==
    /\ UNCHANGED readVars
    /\ UNCHANGED localVars
    /\ \E t \in TxIds : perform_2pc_apply(t)
    /\ UNCHANGED clusterVars
DeleteObject ==
    /\ UNCHANGED readVars
    /\ UNCHANGED localVars
    /\ \E n \in Nodes, p \in Paths, qv \in {NoVersion} \cup Versions : delete_object(n, p, qv)
    /\ UNCHANGED clusterVars
GetObject ==
    /\ UNCHANGED readVars
    /\ UNCHANGED localVars
    /\ \E n \in Nodes, p \in Paths, qv \in {NoVersion} \cup Versions : get_object(n, p, qv)
    /\ UNCHANGED clusterVars
HealthCheck ==
    /\ UNCHANGED readVars
    /\ UNCHANGED localVars
    /\ \E n \in Nodes : health_check_loop(n)
    /\ UNCHANGED clusterVars
ReadBlob ==
    /\ UNCHANGED readVars
    /\ UNCHANGED localVars
    /\ \E n \in Nodes, p \in Paths, replicas \in SeqsOf(Nodes) : read_blob(n, p, replicas)
    /\ UNCHANGED clusterVars

Next ==
    \/ PutObject
    \/ Prepare
    \/ Decide
    \/ Apply
    \/ DeleteObject
    \/ GetObject
    \/ HealthCheck
    \/ ReadBlob

Spec == Init /\ [][Next]_vars

\* the steps of a request in flight are scheduled fairly by the runtime;
\* the arrival of client requests is not
\* and reads are assumed to keep arriving at every replica
FairSpec ==
    /\ Spec
    /\ WF_vars(Prepare)
    /\ WF_vars(Decide)
    /\ WF_vars(Apply)
    /\ WF_vars(HealthCheck)
    /\ WF_vars(ReadBlob)

\* ------------------------------------------------------ cluster bootstrap
\* Config::local_bootstrap_state: the proposal of a node, stamped with the
\* time of the call
local_bootstrap_state(cfg, now) ==
    [initialized_at |-> now, current_node |-> cfg.current_node,
     nodes |-> cfg.nodes, replication |-> cfg.replication,
     initialized_by |-> cfg.current_node]

\* serde_json::to_vec of a bootstrap state: its fields in declaration order
encode_bootstrap(state) ==
    <<state.initialized_at, state.current_node, state.nodes,
      state.replication.min_write_replicas, state.replication.total_slots,
      state.initialized_by>>

\* decode_bootstrap: serde_json::from_slice
decode_bootstrap(payload) ==
    [initialized_at |-> payload[1], current_node |-> payload[2],
     nodes |-> payload[3],
     replication |-> [min_write_replicas |-> payload[4], total_slots |-> payload[5]],
     initialized_by |-> payload[6]]

\* Registry::get_bootstrap_state
get_bootstrap_state == bootstrap

\* Registry::set_bootstrap_state_if_absent: linearizable, first writer wins
set_bootstrap_state_if_absent_won == bootstrap = NoBytes
set_bootstrap_state_if_absent(payload) ==
    IF bootstrap = NoBytes THEN payload ELSE bootstrap

\* ensure_local_layout going on with the node's own configuration when the
\* record does not list the node
ensure_local_layout_without_check(current_node, state) == TRUE

\* ensure_local_layout: the node is looked up in the record's node list (else
\* Config error) before any directory is created
ensure_local_layout(current_node, state) == current_node \in state.nodes

\* runtime_from_bootstrap keeping the replication section of the file
runtime_from_config(cfg, state) ==
    [ok |-> cfg.current_node \in state.nodes, replication |-> cfg.replication]

\* Config::runtime_from_bootstrap: the node entry and the replication
\* parameters of the record
runtime_from_bootstrap(cfg, state) ==
    [ok |-> cfg.current_node \in state.nodes, replication |-> state.replication]

\* MetadataStore::next_generation
next_generation(S, path) == get_max_version(S, path) + 1

\* the entries of the init-scan feed (the redis list)
ScanFeed == <<"p">>

\* run_optional_init_scan, the import loop: each entry becomes a head at the
\* next generation of its path in the local store of its slot
RECURSIVE init_scan_import(_, _)
init_scan_import(S, k) ==
    IF k > Len(ScanFeed) THEN S
    ELSE init_scan_import(
             upsert_with_payload(S, [path |-> ScanFeed[k],
                                     version |-> next_generation(S, ScanFeed[k]),
                                     blob_id |-> 0, tomb |-> FALSE]),
             k + 1)

\* the run going on to the create attempt without looking at what the first
\* read returned
init_read_creates_anyway(i, n) ==
    /\ run[i].pc = "idle"
    /\ \A j \in RunIds : j < i => run[j].pc # "idle"
    /\ run' = [run EXCEPT ![i] =
           [@ EXCEPT !.pc = "create", !.node = n,
                     !.proposed = local_bootstrap_state(config[n], i)]]
    /\ UNCHANGED <<bootstrap, config, dirs>>
    /\ UNCHANGED engineVars

\* InitClusterOperation::run up to the first read of the registry: with a
\* record present it is decoded, the local layout ensured and the run
\* returns; else the proposal is built
init_read(i, n) ==
    /\ run[i].pc = "idle"
    /\ \A j \in RunIds : j < i => run[j].pc # "idle"
    /\ IF get_bootstrap_state # NoBytes
       THEN LET existing == decode_bootstrap(get_bootstrap_state)
            IN  IF ensure_local_layout(n, existing)
                THEN /\ run' = [run EXCEPT ![i] =
                            [@ EXCEPT !.pc = "ok", !.node = n, !.dirs = TRUE,
                                      !.won = FALSE, !.result = existing]]
                     /\ dirs' = dirs \cup {n}
                ELSE /\ run' = [run EXCEPT ![i] =
                            [@ EXCEPT !.pc = "err", !.node = n, !.error = "Config"]]
                     /\ dirs' = dirs
       ELSE /\ run' = [run EXCEPT ![i] =
                   [@ EXCEPT !.pc = "create", !.node = n,
                             !.proposed = local_bootstrap_state(config[n], i)]]
            /\ dirs' = dirs
    /\ UNCHANGED <<bootstrap, config>>
    /\ UNCHANGED engineVars

\* the create attempt of the run: set_bootstrap_state_if_absent
init_create(i) ==
    /\ run[i].pc = "create"
    /\ bootstrap' = set_bootstrap_state_if_absent(encode_bootstrap(run[i].proposed))
    /\ run' = [run EXCEPT ![i] =
           [@ EXCEPT !.pc = "reread", !.attempted = TRUE,
                     !.won = set_bootstrap_state_if_absent_won]]
    /\ UNCHANGED <<config, dirs>>
    /\ UNCHANGED engineVars

\* the result of the run from the second read on, as a function of the state
\* it returns, of whether it runs the scan and of the scan's outcome:
\* decode, ensure_local_layout, run_optional_init_scan, Ok
finish_with(i, active, returned, scans, scan_ok) ==
    IF ~ensure_local_layout(run[i].node, active)
    THEN /\ run' = [run EXCEPT ![i] = [@ EXCEPT !.pc = "err", !.error = "Config"]]
         /\ UNCHANGED <<dirs, store, hasSlot>>
    ELSE /\ dirs' = dirs \cup {run[i].node}
         /\ IF scans /\ config[run[i].node].init_scan
            THEN IF scan_ok
                 THEN /\ run' = [run EXCEPT ![i] =
                             [@ EXCEPT !.pc = "ok", !.dirs = TRUE, !.result = returned,
                                       !.scan_slots = active.replication.total_slots]]
                      /\ hasSlot' = hasSlot \cup {run[i].node}
                      /\ store' = [store EXCEPT ![run[i].node] = init_scan_import(@, 1)]
                 ELSE /\ run' = [run EXCEPT ![i] =
                             [@ EXCEPT !.pc = "err", !.dirs = TRUE, !.error = "Internal",
                                       !.scan_slots = active.replication.total_slots]]
                      /\ UNCHANGED <<store, hasSlot>>
            ELSE /\ run' = [run EXCEPT ![i] =
                        [@ EXCEPT !.pc = "ok", !.dirs = TRUE, !.result = returned]]
                 /\ UNCHANGED <<store, hasSlot>>

\* the run returning its own proposal without reading the record back
init_finish_returns_proposed(i, scan_ok) ==
    /\ run[i].pc = "reread"
    /\ finish_with(i, run[i].proposed, run[i].proposed, run[i].won, scan_ok)
    /\ UNCHANGED <<bootstrap, config, chunks, health, tx, prepared, nextTx>>

\* the run starting the scan whether or not its create attempt won
init_finish_scans_always(i, scan_ok) ==
    /\ run[i].pc = "reread"
    /\ finish_with(i, decode_bootstrap(get_bootstrap_state),
                   decode_bootstrap(get_bootstrap_state), TRUE, scan_ok)
    /\ UNCHANGED <<bootstrap, config, chunks, health, tx, prepared, nextTx>>

\* InitClusterOperation::run from the second read of the registry on: a
\* missing record is an Internal error; else the persisted record is decoded,
\* the local layout ensured, the scan run by the winner, and the persisted
\* state returned with won_bootstrap_race
init_finish(i, scan_ok) ==
    /\ run[i].pc = "reread"
    /\ IF get_bootstrap_state = NoBytes
       THEN /\ run' = [run EXCEPT ![i] = [@ EXCEPT !.pc = "err", !.error = "Internal"]]
            /\ UNCHANGED <<dirs, store, hasSlot>>
       ELSE finish_with(i, decode_bootstrap(get_bootstrap_state),
                        decode_bootstrap(get_bootstrap_state), run[i].won, scan_ok)
    /\ UNCHANGED <<bootstrap, config, chunks, health, tx, prepared, nextTx>>

\* the process of a run is killed between its registry calls
init_crash(i) ==
    /\ run[i].pc \in {"create", "reread"}
    /\ run' = [run EXCEPT ![i] = [@ EXCEPT !.pc = "crashed"]]
    /\ UNCHANGED <<bootstrap, config, dirs>>
    /\ UNCHANGED engineVars

\* main after ensure_initialized returned Ok, not in init-only mode: the
\* runtime configuration is built and the server started with it
main_run_server(i) ==
    /\ run[i].pc = "ok"
    /\ LET runtime == runtime_from_bootstrap(config[run[i].node], run[i].result)
       IN  run' = [run EXCEPT ![i] =
               IF runtime.ok
               THEN [@ EXCEPT !.pc = "serving", !.runtime = runtime.replication]
               ELSE [@ EXCEPT !.pc = "err", !.error = "Config"]]
    /\ UNCHANGED <<bootstrap, config, dirs>>
    /\ UNCHANGED engineVars

InitRead ==
    /\ \E i \in RunIds, n \in Nodes : init_read(i, n)
    /\ UNCHANGED readVars
    /\ UNCHANGED localVars
InitCreate ==
    /\ \E i \in RunIds : init_create(i)
    /\ UNCHANGED readVars
    /\ UNCHANGED localVars
InitFinish ==
    /\ \E i \in RunIds, scan_ok \in BOOLEAN : init_finish(i, scan_ok)
    /\ UNCHANGED readVars
    /\ UNCHANGED localVars
InitCrash ==
    /\ \E i \in RunIds : init_crash(i)
    /\ UNCHANGED readVars
    /\ UNCHANGED localVars
MainRunServer ==
    /\ \E i \in RunIds : main_run_server(i)
    /\ UNCHANGED readVars
    /\ UNCHANGED localVars

\* fresh nodes with their configuration files, an empty registry
ClusterInit ==
    /\ ClusterIdle
    /\ config \in {c \in [Nodes -> Configs] : \A n \in Nodes : c[n].current_node = n}
    /\ store = [n \in Nodes |-> {}]
    /\ chunks = [n \in Nodes |-> {}]
    /\ hasSlot = {}
    /\ health = {}
    /\ tx = [t \in TxIds |-> NoTx]
    /\ prepared = [n \in Nodes |-> {}]
    /\ nextTx = 1
    /\ ReadIdle
    /\ LocalIdle

ClusterNext ==
    \/ InitRead
    \/ InitCreate
    \/ InitFinish
    \/ InitCrash
    \/ MainRunServer

ClusterSpec == ClusterInit /\ [][ClusterNext]_vars

\* ------------------------------------------- object reads (chunk store)
Min(a, b) == IF a < b THEN a ELSE b

\* store_chunks: the pieces of data.chunks(CHUNK_SIZE), each with its hash
\* as id and its length
RECURSIVE store_chunks(_, _)
store_chunks(data, chunk_size) ==
    IF Len(data) = 0 THEN <<>>
    ELSE <<[id |-> compute_hash(SubSeq(data, 1, Min(chunk_size, Len(data)))),
            len |-> Min(chunk_size, Len(data))]>>
         \o store_chunks(SubSeq(data, Min(chunk_size, Len(data)) + 1, Len(data)),
                         chunk_size)

\* ChunkStore::put_chunk of every piece: the file of a chunk is named by the
\* hash of its data
RECURSIVE put_chunks(_, _)
put_chunks(data, chunk_size) ==
    IF Len(data) = 0 THEN {}
    ELSE {[id |-> compute_hash(SubSeq(data, 1, Min(chunk_size, Len(data)))),
           data |-> SubSeq(data, 1, Min(chunk_size, Len(data)))]}
         \cup put_chunks(SubSeq(data, Min(chunk_size, Len(data)) + 1, Len(data)),
                         chunk_size)

\* ChunkStore::chunk_exists / get_chunk
chunk_exists(id) == \E c \in chunkStore : c.id = id
get_chunk(id) == (CHOOSE c \in chunkStore : c.id = id).data

\* stream_blob, from chunk k on: the chunks that overlap [start, end) are
\* read and cut; a slice with its start behind its end panics
RECURSIVE stream_blob(_, _, _, _, _, _)
stream_blob(meta, k, current_pos, start, end, result) ==
    IF k > Len(meta.chunks) THEN [outcome |-> "200", body |-> result]
    ELSE LET chunk == meta.chunks[k]
             chunk_start == current_pos
             chunk_end == current_pos + chunk.len
             chunk_offset_start == IF start > chunk_start THEN start - chunk_start ELSE 0
             chunk_offset_end == IF end < chunk_end THEN end - chunk_start ELSE chunk.len
         IN  IF chunk_end > start /\ chunk_start < end
             THEN IF ~chunk_exists(chunk.id)
                  THEN [outcome |-> "500", body |-> <<>>]
                  ELSE IF chunk_offset_start > chunk_offset_end
                  THEN [outcome |-> "panic", body |-> <<>>]
                  ELSE stream_blob(meta, k + 1, chunk_end, start, end,
                           result \o Slice(get_chunk(chunk.id),
                                           chunk_offset_start, chunk_offset_end))
             ELSE stream_blob(meta, k + 1, chunk_end, start, end, result)

\* get_object on the node that holds the object, with the range of the
\* query: start defaults to 0 and end to meta.size, then stream_blob
get_object_range(query) ==
    LET start == IF query.start = NoRange.start THEN 0 ELSE query.start
        end == IF query.end = NoRange.end THEN objMeta.size ELSE query.end
        streamed == stream_blob(objMeta, 1, 0, start, end, <<>>)
    IN  /\ readOut' = [NoOut EXCEPT !.op = "get_object", !.range = query,
                                    !.outcome = streamed.outcome,
                                    !.body = streamed.body]
        /\ UNCHANGED <<blobMeta, partEntries, partFiles, objMeta, chunkStore>>

\* --------------------------------------------------- body reads (parts)
\* resolve_effective_range without the comparison of start and end
resolve_effective_range_any_order(size_bytes, requested) ==
    IF requested # NoRange
    THEN IF requested.end >= size_bytes
         THEN [ok |-> FALSE, range |-> NoRange]
         ELSE [ok |-> TRUE, range |-> requested]
    ELSE [ok |-> TRUE, range |-> [start |-> 0, end |-> size_bytes - 1]]

\* resolve_effective_range
resolve_effective_range(size_bytes, requested) ==
    IF requested # NoRange
    THEN IF requested.start > requested.end \/ requested.end >= size_bytes
         THEN [ok |-> FALSE, range |-> NoRange]
         ELSE [ok |-> TRUE, range |-> requested]
    ELSE [ok |-> TRUE, range |-> [start |-> 0, end |-> size_bytes - 1]]

\* part_byte_range
part_byte_range(meta, part_no) ==
    LET part_size == IF meta.part_size < 1 THEN 1 ELSE meta.part_size
        start == part_no * part_size
    IN  IF start >= meta.size_bytes
        THEN [ok |-> FALSE, start |-> 0, end |-> 0]
        ELSE [ok |-> TRUE, start |-> start,
              end |-> Min(start + part_size - 1, meta.size_bytes - 1)]

\* resolve_part_sha256: the x-rimio-sha256 header or the expected hash is
\* returned only if it equals the hash computed over the body
resolve_part_sha256(headers, body, expected_sha256) ==
    IF headers # <<>>
    THEN IF compute_hash(body) = headers THEN headers ELSE compute_hash(body)
    ELSE IF expected_sha256 # <<>>
    THEN IF compute_hash(body) = expected_sha256
         THEN expected_sha256 ELSE compute_hash(body)
    ELSE compute_hash(body)

\* the path of a part file: .../<generation>/<part_no>.<sha256>
part_path(part_no, sha256) == <<part_no, sha256>>

\* PartStore::part_exists / get_part
part_exists(files, part_no, sha256) ==
    \E f \in files : f.path = part_path(part_no, sha256)
get_part(files, part_no, sha256) ==
    (CHOOSE f \in files : f.path = part_path(part_no, sha256)).bytes

\* PartStore::put_part: HashMismatch if the bytes do not hash to sha256; an
\* existing file is reused (reused = true) and not rewritten; else the file
\* is written
put_part(files, part_no, sha256, bytes) ==
    IF compute_hash(bytes) # sha256
    THEN [ok |-> FALSE, reused |-> FALSE, files |-> files]
    ELSE IF part_exists(files, part_no, sha256)
    THEN [ok |-> TRUE, reused |-> TRUE, files |-> files]
    ELSE [ok |-> TRUE, reused |-> FALSE,
          files |-> files \cup {[path |-> part_path(part_no, sha256), bytes |-> bytes]}]

\* MetadataStore::upsert_part_entry: idempotent replace
upsert_part_entry(entries, part_no, sha256, length, external_path, archive_url) ==
    [entries EXCEPT ![part_no] =
        [present |-> TRUE, sha256 |-> sha256, length |-> length,
         external_path |-> external_path, archive_url |-> archive_url]]

\* what the sources answer: the archive holds the body of the blob and
\* answers a ranged fetch with the bytes of the range, with one byte less,
\* or not at all
ArchiveModes == {"ok", "short", "fail"}
fetch_archive_range_bytes(start, end, mode) ==
    IF mode = "fail" THEN [ok |-> FALSE, bytes |-> <<>>]
    ELSE IF mode = "short"
    THEN [ok |-> TRUE, bytes |-> Slice(Body(blobMeta.size_bytes), start, end)]
    ELSE [ok |-> TRUE, bytes |-> Slice(Body(blobMeta.size_bytes), start, end + 1)]

\* a peer answers a part fetch with the part and its hash in the header,
\* with a header that is not the hash of the bytes sent, with bytes damaged
\* on the way, or not at all
PeerModes == {"ok", "badheader", "corrupt", "fail"}
PartBytes(part_no) ==
    Slice(Body(blobMeta.size_bytes), part_byte_range(blobMeta, part_no).start,
          part_byte_range(blobMeta, part_no).end + 1)
fetch_part(part_no, mode) ==
    IF mode = "fail" \/ ~part_byte_range(blobMeta, part_no).ok
    THEN [ok |-> FALSE, bytes |-> <<>>, headers |-> <<>>]
    ELSE IF mode = "corrupt"
    THEN [ok |-> TRUE, bytes |-> [k \in 1..Len(PartBytes(part_no)) |-> 0],
          headers |-> compute_hash(PartBytes(part_no))]
    ELSE IF mode = "badheader"
    THEN [ok |-> TRUE, bytes |-> PartBytes(part_no), headers |-> compute_hash(<<0>>)]
    ELSE [ok |-> TRUE, bytes |-> PartBytes(part_no),
          headers |-> compute_hash(PartBytes(part_no))]

\* the local state a read works on, and the fetches it has issued
Fetch(source, part_no, start, end) ==
    [source |-> source, part_no |-> part_no, start |-> start, end |-> end]
Failed(st, error) == [ok |-> FALSE, error |-> error, bytes |-> <<>>, st |-> st]

\* fetch_part_from_archive_and_store entering the part without the archive
\* it came from
fetch_part_from_archive_and_store_unmarked(st, meta, part_no, expected_sha256, mode) ==
    LET r == part_byte_range(meta, part_no)
        got == fetch_archive_range_bytes(r.start, r.end, mode)
        issued == [st EXCEPT !.fetched = @ \cup {Fetch("archive", part_no, r.start, r.end)}]
        sha256 == resolve_part_sha256(<<>>, got.bytes, expected_sha256)
        put == put_part(st.files, part_no, sha256, got.bytes)
    IN  IF ~r.ok THEN Failed(st, "InvalidRequest")
        ELSE IF ~got.ok THEN Failed(issued, "Http")
        ELSE IF Len(got.bytes) # r.end - r.start + 1 THEN Failed(issued, "Internal")
        ELSE IF expected_sha256 # <<>> /\ sha256 # expected_sha256
        THEN Failed(issued, "HashMismatch")
        ELSE IF ~put.ok THEN Failed(issued, "HashMismatch")
        ELSE [ok |-> TRUE, error |-> "none", bytes |-> got.bytes,
              st |-> [issued EXCEPT
                        !.files = put.files,
                        !.entries = upsert_part_entry(st.entries, part_no, sha256,
                                        Len(got.bytes), part_path(part_no, sha256), FALSE)]]

\* fetch_part_from_archive_and_store
fetch_part_from_archive_and_store(st, meta, part_no, expected_sha256, mode) ==
    LET r == part_byte_range(meta, part_no)
        got == fetch_archive_range_bytes(r.start, r.end, mode)
        issued == [st EXCEPT !.fetched = @ \cup {Fetch("archive", part_no, r.start, r.end)}]
        sha256 == resolve_part_sha256(<<>>, got.bytes, expected_sha256)
        put == put_part(st.files, part_no, sha256, got.bytes)
    IN  IF ~r.ok THEN Failed(st, "InvalidRequest")
        ELSE IF ~got.ok THEN Failed(issued, "Http")
        ELSE IF Len(got.bytes) # r.end - r.start + 1 THEN Failed(issued, "Internal")
        ELSE IF expected_sha256 # <<>> /\ sha256 # expected_sha256
        THEN Failed(issued, "HashMismatch")
        ELSE IF ~put.ok THEN Failed(issued, "HashMismatch")
        ELSE [ok |-> TRUE, error |-> "none", bytes |-> got.bytes,
              st |-> [issued EXCEPT
                        !.files = put.files,
                        !.entries = upsert_part_entry(st.entries, part_no, sha256,
                                        Len(got.bytes), part_path(part_no, sha256), TRUE)]]

\* the peer's part recorded under the hash its header advertises
store_peer_part_as_advertised(st, part_no, payload, expected_sha256) ==
    LET sha256 == resolve_part_sha256(payload.headers, payload.bytes, expected_sha256)
        put == put_part(st.files, part_no, sha256, payload.bytes)
    IN  IF expected_sha256 # <<>> /\ sha256 # expected_sha256
        THEN Failed(st, "continue")
        ELSE IF ~put.ok THEN Failed(st, "continue")
        ELSE [ok |-> TRUE, error |-> "none", bytes |-> payload.bytes,
              st |-> [st EXCEPT
                        !.files = put.files,
                        !.entries = upsert_part_entry(st.entries, part_no, payload.headers,
                                        Len(payload.bytes), part_path(part_no, sha256), FALSE)]]

\* fetch_part_from_peers_and_store, one peer's payload: the hash is
\* resolved, compared with the expected one, the part put and its entry
\* upserted; a failure moves on to the next peer
store_peer_part(st, part_no, payload, expected_sha256) ==
    LET sha256 == resolve_part_sha256(payload.headers, payload.bytes, expected_sha256)
        put == put_part(st.files, part_no, sha256, payload.bytes)
    IN  IF expected_sha256 # <<>> /\ sha256 # expected_sha256
        THEN Failed(st, "continue")
        ELSE IF ~put.ok THEN Failed(st, "continue")
        ELSE [ok |-> TRUE, error |-> "none", bytes |-> payload.bytes,
              st |-> [st EXCEPT
                        !.files = put.files,
                        !.entries = upsert_part_entry(st.entries, part_no, sha256,
                                        Len(payload.bytes), part_path(part_no, sha256), FALSE)]]

\* fetch_part_from_peers_and_store, from peer i on: by sha when a hash is
\* expected, else by index
RECURSIVE fetch_part_from_peers_and_store(_, _, _, _, _)
fetch_part_from_peers_and_store(st, peers, i, part_no, expected_sha256) ==
    IF i > Len(peers) THEN Failed(st, "PartNotFound")
    ELSE LET payload == fetch_part(part_no, peers[i])
             issued == [st EXCEPT !.fetched = @ \cup
                           {Fetch(IF expected_sha256 # <<>> THEN "peer_by_sha"
                                  ELSE "peer_by_index", part_no, i, i)}]
             stored == store_peer_part(issued, part_no, payload, expected_sha256)
         IN  IF ~payload.ok
             THEN fetch_part_from_peers_and_store(issued, peers, i + 1, part_no,
                                                  expected_sha256)
             ELSE IF ~stored.ok
             THEN fetch_part_from_peers_and_store(issued, peers, i + 1, part_no,
                                                  expected_sha256)
             ELSE stored

\* read_local_part: the part store's file, else the file of external_path
read_local_part(st, part_no, sha256, external_path) ==
    IF part_exists(st.files, part_no, sha256)
    THEN [ok |-> TRUE, error |-> "none",
          bytes |-> get_part(st.files, part_no, sha256), st |-> st]
    ELSE IF external_path # <<>> /\ \E f \in st.files : f.path = external_path
    THEN [ok |-> TRUE, error |-> "none",
          bytes |-> (CHOOSE f \in st.files : f.path = external_path).bytes, st |-> st]
    ELSE Failed(st, "PartNotFound")

\* read_part_bytes in which a failed archive fetch ends the read of the part
read_part_bytes_archive_only(st, peers, meta, part_no, archive_mode) ==
    LET entry == st.entries[part_no]
        local == read_local_part(st, part_no, entry.sha256, entry.external_path)
        expected == IF entry.present THEN entry.sha256 ELSE <<>>
        archived == fetch_part_from_archive_and_store(st, meta, part_no, expected,
                                                      archive_mode)
    IN  IF entry.present /\ local.ok THEN local
        ELSE IF (entry.present /\ entry.archive_url) \/ meta.archive_url
        THEN archived
        ELSE fetch_part_from_peers_and_store(st, peers, 1, part_no, expected)

\* read_part_bytes: the local part; else the archive, if the entry or the
\* meta names one; else the peers
read_part_bytes(st, peers, meta, part_no, archive_mode) ==
    LET entry == st.entries[part_no]
        local == read_local_part(st, part_no, entry.sha256, entry.external_path)
        expected == IF entry.present THEN entry.sha256 ELSE <<>>
        archived == fetch_part_from_archive_and_store(st, meta, part_no, expected,
                                                      archive_mode)
    IN  IF entry.present /\ local.ok THEN local
        ELSE IF (entry.present /\ entry.archive_url) \/ meta.archive_url
        THEN IF archived.ok THEN archived
             ELSE fetch_part_from_peers_and_store([st EXCEPT !.fetched = archived.st.fetched],
                                                  peers, 1, part_no, expected)
        ELSE fetch_part_from_peers_and_store(st, peers, 1, part_no, expected)

\* ReadBlobOperation::run, the loop over the parts first_part..=last_part:
\* each part is read and cut to the range
RECURSIVE read_parts(_, _, _, _, _, _, _)
read_parts(st, peers, meta, part_no, body_range, archive_mode, body) ==
    LET part_size == IF meta.part_size < 1 THEN 1 ELSE meta.part_size
        first_part == body_range.start \div part_size
        last_part == body_range.end \div part_size
        got == read_part_bytes(st, peers, meta, part_no, archive_mode)
        part_start == part_no * part_size
        slice_start == IF part_no = first_part
                       THEN body_range.start - part_start ELSE 0
        slice_end_exclusive == IF part_no = last_part
                               THEN (body_range.end - part_start) + 1
                               ELSE Len(got.bytes)
    IN  IF part_no > last_part
        THEN [ok |-> TRUE, error |-> "none", bytes |-> body, st |-> st]
        ELSE IF ~got.ok THEN Failed(got.st, got.error)
        ELSE IF slice_start > slice_end_exclusive \/ slice_end_exclusive > Len(got.bytes)
        THEN Failed(got.st, "Internal")
        ELSE read_parts(got.st, peers, meta, part_no + 1, body_range, archive_mode,
                        body \o Slice(got.bytes, slice_start, slice_end_exclusive))

\* ReadBlobOperation::run on a node whose current head is the meta head of
\* the blob: without a body; the empty blob; the effective range; the parts
read_blob_body(include_body, range, archive_mode, peers) ==
    LET meta == blobMeta
        st0 == [entries |-> partEntries, files |-> partFiles, fetched |-> {}]
        resolved == resolve_effective_range(meta.size_bytes, range)
        part_size == IF meta.part_size < 1 THEN 1 ELSE meta.part_size
        read == read_parts(st0, peers, meta, resolved.range.start \div part_size,
                           resolved.range, archive_mode, <<>>)
        out == [NoOut EXCEPT !.op = "read_blob", !.range = range]
    IN  IF ~include_body
        THEN /\ readOut' = [out EXCEPT !.outcome = "Found", !.op = "head_blob"]
             /\ UNCHANGED <<partEntries, partFiles>>
        ELSE IF meta.size_bytes = 0
        THEN /\ readOut' = IF range # NoRange
                           THEN [out EXCEPT !.outcome = "InvalidRequest"]
                           ELSE [out EXCEPT !.outcome = "Found"]
             /\ UNCHANGED <<partEntries, partFiles>>
        ELSE IF ~resolved.ok
        THEN /\ readOut' = [out EXCEPT !.outcome = "InvalidRequest"]
             /\ UNCHANGED <<partEntries, partFiles>>
        ELSE /\ readOut' = IF read.ok
                           THEN [out EXCEPT !.outcome = "Found", !.body = read.bytes,
                                            !.body_range = resolved.range,
                                            !.fetched = read.st.fetched]
                           ELSE [out EXCEPT !.outcome = read.error,
                                            !.fetched = read.st.fetched]
             /\ partEntries' = read.st.entries
             /\ partFiles' = read.st.files

\* repair_path_from_head, from part_no on: a part that is not local is
\* fetched by index from the source node, put and entered
RECURSIVE repair_parts(_, _, _)
repair_parts(st, part_no, mode) ==
    LET entry == st.entries[part_no]
        already_local ==
            /\ entry.present
            /\ IF entry.external_path # <<>>
               THEN \E f \in st.files : f.path = entry.external_path
               ELSE part_exists(st.files, part_no, entry.sha256)
        payload == fetch_part(part_no, mode)
        sha256 == resolve_part_sha256(payload.headers, payload.bytes, <<>>)
        put == put_part(st.files, part_no, sha256, payload.bytes)
    IN  IF part_no >= blobMeta.part_count THEN st
        ELSE IF already_local THEN repair_parts(st, part_no + 1, mode)
        ELSE IF ~payload.ok \/ ~put.ok THEN st
        ELSE repair_parts(
                 [st EXCEPT !.files = put.files,
                            !.entries = upsert_part_entry(st.entries, part_no, sha256,
                                Len(payload.bytes), part_path(part_no, sha256), FALSE)],
                 part_no + 1, mode)

repair_path_from_head(mode) ==
    LET st == repair_parts([entries |-> partEntries, files |-> partFiles,
                            fetched |-> {}], 0, mode)
    IN  /\ partEntries' = st.entries
        /\ partFiles' = st.files
        /\ readOut' = [NoOut EXCEPT !.op = "repair_path_from_head"]

\* InternalPartOperation::run_put, the upload of a part by a peer: the body
\* must hash to the sha256 of the request
run_put(part_no, sha256, body) ==
    LET put == put_part(partFiles, part_no, sha256, body)
    IN  IF compute_hash(body) # sha256 \/ ~put.ok
        THEN /\ readOut' = [NoOut EXCEPT !.op = "run_put", !.outcome = "InvalidRequest",
                                          !.part = part_no]
             /\ UNCHANGED <<partEntries, partFiles>>
        ELSE /\ partFiles' = put.files
             /\ partEntries' = upsert_part_entry(partEntries, part_no, sha256,
                                   Len(body), part_path(part_no, sha256), FALSE)
             /\ readOut' = [NoOut EXCEPT !.op = "run_put", !.outcome = "ok",
                                          !.part = part_no, !.reused = put.reused]

\* fetch_part_from_peers_and_store of the sha-addressed reader, from peer i
\* on: the bytes of the first peer that answers are put under the hash the
\* head names
RECURSIVE fetch_part_by_ref(_, _, _, _)
fetch_part_by_ref(st, peers, i, part_no) ==
    LET payload == fetch_part(part_no, peers[i])
        sha256 == compute_hash(PartBytes(part_no))
        put == put_part(st.files, part_no, sha256, payload.bytes)
    IN  IF i > Len(peers) THEN st
        ELSE IF ~payload.ok THEN fetch_part_by_ref(st, peers, i + 1, part_no)
        ELSE IF ~put.ok THEN st
        ELSE [st EXCEPT !.files = put.files,
                        !.entries = upsert_part_entry(st.entries, part_no, sha256,
                            Len(PartBytes(part_no)), part_path(part_no, sha256), FALSE)]

read_repair_part(part_no, peers) ==
    LET st == fetch_part_by_ref([entries |-> partEntries, files |-> partFiles,
                                 fetched |-> {}], peers, 1, part_no)
    IN  /\ ~part_exists(partFiles, part_no, compute_hash(PartBytes(part_no)))
        /\ partEntries' = st.entries
        /\ partFiles' = st.files
        /\ readOut' = [NoOut EXCEPT !.op = "read_repair_part"]

\* ------------------------------------------------ body reads (system)
\* the requests: no range, a range with start and end up to the size of the
\* blob (end = size is one past the last byte), or the range [3, 6]
Ranges(size) ==
    {NoRange} \cup [start : 0..Min(size, MaxSize), end : 0..Min(size, MaxSize)]
              \cup {[start |-> 3, end |-> 6]}

\* the peers of a read, in the order they are asked, by how they answer
PeerLists == {<<>>, <<"ok">>, <<"badheader">>, <<"fail", "ok">>, <<"corrupt", "ok">>}

\* the blobs a node holds a meta head of: sizes and part sizes up to the
\* bounds, and the head an init-scan entry of 9 bytes in parts of 4 seeds
BlobShapes == ((0..MaxSize) \X (1..MaxPartSize)) \cup {<<9, 4>>}

\* the part index and the part files of a blob of the given meta: written
\* with the blob ("parts"), the index without the files ("index"), or
\* neither, as for a head that was seeded or fetched ("none")
LocalEntries(meta, local) ==
    [k \in 0..(meta.part_count - 1) |->
        LET r == part_byte_range(meta, k)
            bytes == Slice(Body(meta.size_bytes), r.start, r.end + 1)
        IN  IF local = "none" THEN NoEntry
            ELSE [present |-> TRUE, sha256 |-> compute_hash(bytes),
                  length |-> Len(bytes),
                  external_path |-> part_path(k, compute_hash(bytes)),
                  archive_url |-> FALSE]]
LocalFiles(meta, local) ==
    IF local # "parts" THEN {}
    ELSE {[path |-> part_path(k, compute_hash(Slice(Body(meta.size_bytes),
                        part_byte_range(meta, k).start,
                        part_byte_range(meta, k).end + 1))),
           bytes |-> Slice(Body(meta.size_bytes), part_byte_range(meta, k).start,
                           part_byte_range(meta, k).end + 1)]
          : k \in 0..(meta.part_count - 1)}

ReadBlobBody ==
    /\ readOut = NoOut
    /\ \E include_body \in BOOLEAN, range \in Ranges(blobMeta.size_bytes),
          archive_mode \in ArchiveModes, peers \in PeerLists :
          read_blob_body(include_body, range, archive_mode, peers)
    /\ UNCHANGED <<blobMeta, objMeta, chunkStore>>
    /\ UNCHANGED engineVars
    /\ UNCHANGED clusterVars
    /\ UNCHANGED localVars
RepairPathFromHead ==
    /\ readOut = NoOut
    /\ \E mode \in PeerModes : repair_path_from_head(mode)
    /\ UNCHANGED <<blobMeta, objMeta, chunkStore>>
    /\ UNCHANGED engineVars
    /\ UNCHANGED clusterVars
    /\ UNCHANGED localVars
RunPut ==
    /\ readOut = NoOut
    /\ \E part_no \in DOMAIN partEntries, corrupt \in BOOLEAN, claimed \in BOOLEAN :
          /\ claimed \/ ~corrupt
          /\ LET good == PartBytes(part_no)
                 bad == [k \in 1..Len(good) |-> 0]
             IN  run_put(part_no,
                         IF claimed THEN compute_hash(good) ELSE compute_hash(bad),
                         IF corrupt THEN bad ELSE good)
    /\ UNCHANGED <<blobMeta, objMeta, chunkStore>>
    /\ UNCHANGED engineVars
    /\ UNCHANGED clusterVars
    /\ UNCHANGED localVars
ReadRepairPart ==
    /\ readOut = NoOut
    /\ \E part_no \in DOMAIN partEntries, peers \in PeerLists :
          read_repair_part(part_no, peers)
    /\ UNCHANGED <<blobMeta, objMeta, chunkStore>>
    /\ UNCHANGED engineVars
    /\ UNCHANGED clusterVars
    /\ UNCHANGED localVars
GetObjectRange ==
    /\ readOut = NoOut
    /\ \E query \in Ranges(objMeta.size) \cup
                    {[start |-> a, end |-> NoRange.end] : a \in 0..objMeta.size} \cup
                    {[start |-> NoRange.start, end |-> b] : b \in 0..objMeta.size} :
          get_object_range(query)
    /\ UNCHANGED engineVars
    /\ UNCHANGED clusterVars
    /\ UNCHANGED localVars

\* a node that holds the meta head of one blob and the object put with the
\* same body; the slot engine and the bootstrap are at rest
ReadInit ==
    /\ ClusterIdle
    /\ config = [n \in Nodes |-> [current_node |-> n, nodes |-> Nodes,
                                  replication |-> [min_write_replicas |-> MinWriteReplicas,
                                                   total_slots |-> 4],
                                  init_scan |-> FALSE]]
    /\ store = [n \in Nodes |-> {}]
    /\ chunks = [n \in Nodes |-> {}]
    /\ hasSlot = {}
    /\ health = {}
    /\ tx = [t \in TxIds |-> NoTx]
    /\ prepared = [n \in Nodes |-> {}]
    /\ nextTx = 1
    /\ \E shape \in BlobShapes, archive \in BOOLEAN, local \in {"parts", "index", "none"} :
          LET size == shape[1]
              part_size == shape[2]
              meta == [size_bytes |-> size, part_size |-> part_size,
                       part_count |-> IF size = 0 THEN 0
                                      ELSE (size + part_size - 1) \div part_size,
                       archive_url |-> archive]
          IN  /\ blobMeta = meta
              /\ partEntries = LocalEntries(meta, local)
              /\ partFiles = LocalFiles(meta, local)
              /\ objMeta = [size |-> size, chunks |-> store_chunks(Body(size), part_size)]
              /\ chunkStore = put_chunks(Body(size), part_size)
    /\ readOut = NoOut
    /\ LocalIdle

\* the response leaves the node
Respond ==
    /\ readOut # NoOut
    /\ readOut' = NoOut
    /\ UNCHANGED <<blobMeta, partEntries, partFiles, objMeta, chunkStore>>
    /\ UNCHANGED engineVars
    /\ UNCHANGED clusterVars
    /\ UNCHANGED localVars

ReadNext ==
    \/ Respond
    \/ ReadBlobBody
    \/ RepairPathFromHead
    \/ RunPut
    \/ ReadRepairPart
    \/ GetObjectRange

ReadSpec == ReadInit /\ [][ReadNext]_vars

\* ------------------------------------------- body reads (damaged files)
\* the part files of a blob written with its parts, after the files of the
\* parts in `damaged` have lost content on disk: the file is where the part
\* entry says, its bytes are overwritten ("zeroed") or cut by one
\* ("truncated")
DamagedFiles(meta, damaged, kind) ==
    {LET r == part_byte_range(meta, k)
         bytes == Slice(Body(meta.size_bytes), r.start, r.end + 1)
     IN  [path |-> part_path(k, compute_hash(bytes)),
          bytes |-> IF k \notin damaged THEN bytes
                    ELSE IF kind = "zeroed" THEN [j \in 1..Len(bytes) |-> 0]
                    ELSE SubSeq(bytes, 1, Len(bytes) - 1)]
     : k \in 0..(meta.part_count - 1)}

\* a node that holds the meta head, the part entries and the part files of
\* one blob, some of the files damaged
DamagedInit ==
    /\ ClusterIdle
    /\ config = [n \in Nodes |-> [current_node |-> n, nodes |-> Nodes,
                                  replication |-> [min_write_replicas |-> MinWriteReplicas,
                                                   total_slots |-> 4],
                                  init_scan |-> FALSE]]
    /\ store = [n \in Nodes |-> {}]
    /\ chunks = [n \in Nodes |-> {}]
    /\ hasSlot = {}
    /\ health = {}
    /\ tx = [t \in TxIds |-> NoTx]
    /\ prepared = [n \in Nodes |-> {}]
    /\ nextTx = 1
    /\ \E shape \in BlobShapes, archive \in BOOLEAN :
          LET size == shape[1]
              part_size == shape[2]
              meta == [size_bytes |-> size, part_size |-> part_size,
                       part_count |-> IF size = 0 THEN 0
                                      ELSE (size + part_size - 1) \div part_size,
                       archive_url |-> archive]
          IN  /\ size > 0
              /\ blobMeta = meta
              /\ partEntries = LocalEntries(meta, "parts")
              /\ \E damaged \in SUBSET (0..(meta.part_count - 1)),
                    kind \in {"zeroed", "truncated"} :
                    /\ damaged # {}
                    /\ partFiles = DamagedFiles(meta, damaged, kind)
              /\ objMeta = [size |-> size, chunks |-> store_chunks(Body(size), part_size)]
              /\ chunkStore = put_chunks(Body(size), part_size)
    /\ readOut = NoOut
    /\ LocalIdle

DamagedNext == ReadBlobBody \/ Respond

DamagedReadSpec == DamagedInit /\ [][DamagedNext]_vars

\* ------------------------------------------------------ proxied reads
\* get_object on a node that does not hold the slot: proxy_to_replica asks
\* the registry for the healthy replicas; with none the error is answered
\* with 404; else the GET is sent to the first of them with the objects URL
\* of the path (and ?version=), which the replica's get_object serves from
\* start 0 to meta.size; its status and body are passed on
proxy_to_replica(query) ==
    LET replicas == get_healthy_replicas
        forwarded == stream_blob(objMeta, 1, 0, 0, objMeta.size, <<>>)
    IN  /\ readOut' = IF replicas = <<>>
                      THEN [NoOut EXCEPT !.op = "proxy_to_replica", !.range = query,
                                         !.outcome = "404 Insufficient replicas"]
                      ELSE [NoOut EXCEPT !.op = "proxy_to_replica", !.range = query,
                                         !.outcome = forwarded.outcome,
                                         !.body = forwarded.body]
        /\ UNCHANGED <<blobMeta, partEntries, partFiles, objMeta, chunkStore>>

ProxyToReplica ==
    /\ readOut = NoOut
    /\ \E query \in Ranges(objMeta.size) \cup
                    {[start |-> a, end |-> NoRange.end] : a \in 0..objMeta.size} \cup
                    {[start |-> NoRange.start, end |-> b] : b \in 0..objMeta.size} :
          proxy_to_replica(query)
    /\ UNCHANGED engineVars
    /\ UNCHANGED clusterVars
    /\ UNCHANGED localVars

\* node n1 holds the slot and the object, with or without a health record
\* in the registry; the GET arrives at a node that does not hold the slot
ProxyInit ==
    /\ ClusterIdle
    /\ config = [n \in Nodes |-> [current_node |-> n, nodes |-> Nodes,
                                  replication |-> [min_write_replicas |-> MinWriteReplicas,
                                                   total_slots |-> 4],
                                  init_scan |-> FALSE]]
    /\ store = [n \in Nodes |-> {}]
    /\ chunks = [n \in Nodes |-> {}]
    /\ hasSlot = {"n1"}
    /\ health \in SUBSET hasSlot
    /\ tx = [t \in TxIds |-> NoTx]
    /\ prepared = [n \in Nodes |-> {}]
    /\ nextTx = 1
    /\ \E shape \in BlobShapes :
          LET size == shape[1]
              part_size == shape[2]
          IN  /\ blobMeta = [size_bytes |-> size, part_size |-> part_size,
                             part_count |-> IF size = 0 THEN 0
                                            ELSE (size + part_size - 1) \div part_size,
                             archive_url |-> FALSE]
              /\ partEntries = LocalEntries(blobMeta, "none")
              /\ partFiles = {}
              /\ objMeta = [size |-> size, chunks |-> store_chunks(Body(size), part_size)]
              /\ chunkStore = put_chunks(Body(size), part_size)
    /\ readOut = NoOut
    /\ LocalIdle

ProxyNext == ProxyToReplica \/ GetObjectRange \/ Respond

ProxySpec == ProxyInit /\ [][ProxyNext]_vars

\* ------------------------------------------------ head store (payloads)
\* the slot of the path
LocalSlot == "slot"

\* the default part size of the crate
PART_SIZE == MaxPartSize

\* u64::div_ceil
div_ceil(a, b) == (a + b - 1) \div b

\* serde_json::to_vec of a BlobMeta and of a tombstone: the fields in
\* declaration order
encode_meta(meta) ==
    <<"meta", meta.path, meta.slot_id, meta.generation, meta.version,
      meta.size_bytes, meta.part_size, meta.part_count>>
encode_tombstone(tombstone) ==
    <<"tombstone", tombstone.path, tombstone.slot_id, tombstone.generation>>

\* the heads a peer answers fetch_remote_head with: the payload and the hash
\* the peer stored with it; version, part_size and part_count may be unset
\* (0), as in heads written before the fields existed
RemoteMetas ==
    {m \in [path : Paths, slot_id : {LocalSlot}, generation : Versions,
            version : {0} \cup Versions, size_bytes : {0, MaxSize},
            part_size : {0, PART_SIZE}, part_count : 0..MaxSize] :
        /\ m.version \in {0, m.generation}
        /\ m.part_count \in {0, IF m.size_bytes = 0 THEN 0
                                ELSE div_ceil(m.size_bytes, IF m.part_size = 0
                                                            THEN PART_SIZE
                                                            ELSE m.part_size)}}
RemoteTombstones == [path : Paths, slot_id : {LocalSlot}, generation : Versions]
RemoteHeads ==
    {[generation |-> m.generation, head_kind |-> "Meta",
      head_sha256 |-> compute_hash(encode_meta(m)), payload |-> m]
        : m \in RemoteMetas}
    \cup
    {[generation |-> t.generation, head_kind |-> "Tombstone",
      head_sha256 |-> compute_hash(encode_tombstone(t)), payload |-> t]
        : t \in RemoteTombstones}

\* MetadataStore::upsert_meta_with_payload and insert_tombstone_with_payload:
\* the head is inserted iff no head of the path with generation >= its
\* generation exists
upsert_meta_with_payload(H, meta, inline_data, head_sha256) ==
    IF \E h \in H : h.path = meta.path /\ h.generation >= meta.generation THEN H
    ELSE H \cup {[path |-> meta.path, generation |-> meta.generation,
                  head_kind |-> "Meta", inline_data |-> inline_data,
                  head_sha256 |-> head_sha256]}
insert_tombstone_with_payload(H, tombstone, inline_data, head_sha256) ==
    IF \E h \in H : h.path = tombstone.path /\ h.generation >= tombstone.generation
    THEN H
    ELSE H \cup {[path |-> tombstone.path, generation |-> tombstone.generation,
                  head_kind |-> "Tombstone", inline_data |-> inline_data,
                  head_sha256 |-> head_sha256]}

\* the meta apply_remote_head_locally stores: path, slot and generation of
\* the call, and the unset fields filled in
normalized_meta(slot_id, path, head) ==
    LET m1 == [head.payload EXCEPT !.path = path, !.slot_id = slot_id,
                                   !.generation = head.generation]
        m2 == IF m1.version = 0 THEN [m1 EXCEPT !.version = m1.generation] ELSE m1
        m3 == IF m2.part_size = 0 THEN [m2 EXCEPT !.part_size = PART_SIZE] ELSE m2
    IN  IF m3.part_count = 0 /\ m3.size_bytes > 0
        THEN [m3 EXCEPT !.part_count = div_ceil(m3.size_bytes, Max({m3.part_size, 1}))]
        ELSE m3

\* apply_remote_head_locally storing the head as a local write would: under
\* the generation after the highest one of the path
apply_remote_meta_as_next_generation(H, slot_id, path, head) ==
    LET gens == {h.generation : h \in {g \in H : g.path = path}}
        meta == [normalized_meta(slot_id, path, head) EXCEPT
                    !.generation = IF gens = {} THEN 1 ELSE Max(gens) + 1]
    IN  upsert_meta_with_payload(H, meta, encode_meta(meta), head.head_sha256)

\* apply_remote_head_locally, HeadKind::Meta: the normalized meta is
\* serialized again and stored with the hash the peer sent
apply_remote_meta(H, slot_id, path, head) ==
    LET meta == normalized_meta(slot_id, path, head)
    IN  upsert_meta_with_payload(H, meta, encode_meta(meta), head.head_sha256)

\* apply_remote_head_locally, HeadKind::Tombstone
apply_remote_tombstone(H, slot_id, path, head) ==
    LET tombstone == [head.payload EXCEPT !.path = path, !.slot_id = slot_id,
                                          !.generation = head.generation]
    IN  insert_tombstone_with_payload(H, tombstone, encode_tombstone(tombstone),
                                      head.head_sha256)

\* apply_remote_head_locally of a head with its payload
apply_remote_head(H, slot_id, path, head) ==
    IF head.head_kind = "Meta" THEN apply_remote_meta(H, slot_id, path, head)
    ELSE apply_remote_tombstone(H, slot_id, path, head)

ApplyRemoteHead ==
    /\ readOut = NoOut
    /\ \E p \in Paths, head \in RemoteHeads :
          /\ head.payload.path = p
          /\ heads' = apply_remote_head(heads, LocalSlot, p, head)
    /\ UNCHANGED readVars
    /\ UNCHANGED engineVars
    /\ UNCHANGED clusterVars
    /\ UNCHANGED chunkVars
    /\ UNCHANGED slotVars

\* a node whose local stores are empty: it holds no head, no chunk and no
\* part of a blob of MaxSize parts of one byte
LocalInit ==
    /\ ClusterIdle
    /\ config = [n \in Nodes |-> [current_node |-> n, nodes |-> Nodes,
                                  replication |-> [min_write_replicas |-> MinWriteReplicas,
                                                   total_slots |-> 4],
                                  init_scan |-> FALSE]]
    /\ store = [n \in Nodes |-> {}]
    /\ chunks = [n \in Nodes |-> {}]
    /\ hasSlot = {}
    /\ health = {}
    /\ tx = [t \in TxIds |-> NoTx]
    /\ prepared = [n \in Nodes |-> {}]
    /\ nextTx = 1
    /\ blobMeta = [size_bytes |-> MaxSize, part_size |-> 1, part_count |-> MaxSize,
                   archive_url |-> FALSE]
    /\ partEntries = LocalEntries(blobMeta, "none")
    /\ partFiles = {}
    /\ objMeta = [size |-> 0, chunks |-> <<>>]
    /\ chunkStore = {}
    /\ readOut = NoOut
    /\ LocalIdle

HeadNext ==
    \/ ApplyRemoteHead
    \/ RunPut
    \/ Respond

HeadSpec == LocalInit /\ [][HeadNext]_vars

\* ------------------------------------------------- repair from a head
\* repair_path_from_head, the loop over 0..meta.part_count of the payload of
\* the remote head, from part_no on: a part that is not local is fetched by
\* index from the source node (answers[part_no] says how it answers), put
\* and entered; a failed fetch or put ends the repair with the error
RECURSIVE repair_head_parts(_, _, _, _)
repair_head_parts(st, meta, part_no, answers) ==
    LET entry == st.entries[part_no]
        already_local ==
            /\ entry.present
            /\ IF entry.external_path # <<>>
               THEN \E f \in st.files : f.path = entry.external_path
               ELSE part_exists(st.files, part_no, entry.sha256)
        payload == fetch_part(part_no, answers[part_no])
        issued == [st EXCEPT !.fetched = @ \cup {Fetch("source", part_no, 0, 0)}]
        sha256 == resolve_part_sha256(payload.headers, payload.bytes, <<>>)
        put == put_part(st.files, part_no, sha256, payload.bytes)
    IN  IF part_no >= meta.part_count
        THEN [ok |-> TRUE, error |-> "none", bytes |-> <<>>, st |-> st]
        ELSE IF already_local THEN repair_head_parts(st, meta, part_no + 1, answers)
        ELSE IF ~payload.ok THEN Failed(issued, "Http")
        ELSE IF ~put.ok THEN Failed(issued, "HashMismatch")
        ELSE repair_head_parts(
                 [issued EXCEPT
                     !.files = put.files,
                     !.entries = upsert_part_entry(st.entries, part_no, sha256,
                                     Len(payload.bytes), part_path(part_no, sha256), FALSE)],
                 meta, part_no + 1, answers)

\* repair_path_from_head: the parts of a meta head, then
\* apply_remote_head_locally
repair_path(slot_id, path, remote_head, answers) ==
    LET st0 == [entries |-> partEntries, files |-> partFiles, fetched |-> {}]
        repaired == IF remote_head.head_kind = "Meta"
                    THEN repair_head_parts(st0, remote_head.payload, 0, answers)
                    ELSE [ok |-> TRUE, error |-> "none", bytes |-> <<>>, st |-> st0]
    IN  /\ partEntries' = repaired.st.entries
        /\ partFiles' = repaired.st.files
        /\ heads' = IF repaired.ok
                    THEN apply_remote_head(heads, slot_id, path, remote_head)
                    ELSE heads
        /\ readOut' = [NoOut EXCEPT !.op = "repair_path",
                                    !.outcome = IF repaired.ok THEN "ok"
                                                ELSE repaired.error,
                                    !.fetched = repaired.st.fetched]

\* the heads the source node holds of the blob, with their payload and its
\* hash: meta heads of the size and the part size of the blob, version and
\* part_count possibly unset (0), and tombstones
SourceMetas ==
    {m \in [path : Paths, slot_id : {LocalSlot}, generation : Versions,
            version : {0} \cup Versions, size_bytes : {blobMeta.size_bytes},
            part_size : {blobMeta.part_size},
            part_count : {0, blobMeta.part_count}] :
        m.version \in {0, m.generation}}
SourceHeads ==
    {[generation |-> m.generation, head_kind |-> "Meta",
      head_sha256 |-> compute_hash(encode_meta(m)), payload |-> m]
        : m \in SourceMetas}
    \cup
    {[generation |-> t.generation, head_kind |-> "Tombstone",
      head_sha256 |-> compute_hash(encode_tombstone(t)), payload |-> t]
        : t \in RemoteTombstones}

RepairPath ==
    /\ readOut = NoOut
    /\ \E p \in Paths, head \in SourceHeads,
          answers \in [DOMAIN partEntries -> {"ok", "fail"}] :
          /\ head.payload.path = p
          /\ repair_path(LocalSlot, p, head, answers)
    /\ UNCHANGED <<blobMeta, objMeta, chunkStore>>
    /\ UNCHANGED engineVars
    /\ UNCHANGED clusterVars
    /\ UNCHANGED chunkVars
    /\ UNCHANGED slotVars

\* a node that holds no head of the blob the source node holds, and all,
\* the index or none of its parts
RepairInit ==
    /\ ClusterIdle
    /\ config = [n \in Nodes |-> [current_node |-> n, nodes |-> Nodes,
                                  replication |-> [min_write_replicas |-> MinWriteReplicas,
                                                   total_slots |-> 4],
                                  init_scan |-> FALSE]]
    /\ store = [n \in Nodes |-> {}]
    /\ chunks = [n \in Nodes |-> {}]
    /\ hasSlot = {}
    /\ health = {}
    /\ tx = [t \in TxIds |-> NoTx]
    /\ prepared = [n \in Nodes |-> {}]
    /\ nextTx = 1
    /\ \E local \in {"parts", "index", "none"} :
          LET meta == [size_bytes |-> MaxSize, part_size |-> 1,
                       part_count |-> MaxSize, archive_url |-> FALSE]
          IN  /\ blobMeta = meta
              /\ partEntries = LocalEntries(meta, local)
              /\ partFiles = LocalFiles(meta, local)
    /\ objMeta = [size |-> 0, chunks |-> <<>>]
    /\ chunkStore = {}
    /\ readOut = NoOut
    /\ LocalIdle

RepairNext == RepairPath \/ Respond

RepairSpec == RepairInit /\ [][RepairNext]_vars

\* ---------------------------------------------------------- chunk store
\* the blobs and the chunk data of the calls
Blobs == {"b1", "b2"}
ChunkDatas == {Body(k) : k \in 0..MaxSize}

\* chunk_path: blobs/<blob_id>/chunks/<chunk_id>, and the path put_chunk
\* writes first: chunk_path.with_extension("tmp")
chunk_path(blob_id, chunk_id) == [blob_id |-> blob_id, name |-> <<chunk_id, "">>]
temp_path(blob_id, chunk_id) == [blob_id |-> blob_id, name |-> <<chunk_id, "tmp">>]

\* the file system: Path::exists, fs::read, File::create with write_all,
\* fs::rename and fs::remove_file
path_exists(F, path) == \E f \in F : f.path = path
fs_read(F, path) == (CHOOSE f \in F : f.path = path).data
fs_write(F, path, data) ==
    {f \in F : f.path # path} \cup {[path |-> path, data |-> data]}
fs_remove(F, path) == {f \in F : f.path # path}
fs_rename(F, from, to) == fs_remove(fs_write(F, to, fs_read(F, from)), from)

\* ChunkStore::put_chunk leaving the temporary file in place
put_chunk_without_rename(F, blob_id, data) ==
    [chunk_id |-> compute_hash(data),
     files |-> fs_write(F, temp_path(blob_id, compute_hash(data)), data)]

\* ChunkStore::put_chunk run alone: the chunk id is the hash of the data; an
\* existing chunk file is kept; else the data is written to the temporary
\* file, which is renamed to the chunk path
put_chunk(F, blob_id, data) ==
    LET chunk_id == compute_hash(data)
    IN  IF path_exists(F, chunk_path(blob_id, chunk_id))
        THEN [chunk_id |-> chunk_id, files |-> F]
        ELSE [chunk_id |-> chunk_id,
              files |-> fs_rename(fs_write(F, temp_path(blob_id, chunk_id), data),
                                  temp_path(blob_id, chunk_id),
                                  chunk_path(blob_id, chunk_id))]

\* ChunkStore::get_chunk, chunk_exists, delete_chunk and list_blob_chunks
chunk_file_exists(F, blob_id, chunk_id) == path_exists(F, chunk_path(blob_id, chunk_id))
get_chunk_file(F, blob_id, chunk_id) ==
    IF ~chunk_file_exists(F, blob_id, chunk_id) THEN [ok |-> FALSE, data |-> <<>>]
    ELSE [ok |-> TRUE, data |-> fs_read(F, chunk_path(blob_id, chunk_id))]
delete_chunk(F, blob_id, chunk_id) ==
    IF chunk_file_exists(F, blob_id, chunk_id)
    THEN fs_remove(F, chunk_path(blob_id, chunk_id)) ELSE F
list_blob_chunks(F, blob_id) == {f.path.name : f \in {g \in F : g.path.blob_id = blob_id}}

\* the calls of the chunk store, one at a time
PutChunk ==
    /\ \E blob_id \in Blobs, data \in ChunkDatas :
          /\ chunkDir' = put_chunk(chunkDir, blob_id, data).files
          /\ chunkOut' = [op |-> "put_chunk", blob_id |-> blob_id, data |-> data,
                          chunk_id |-> put_chunk(chunkDir, blob_id, data).chunk_id]
    /\ UNCHANGED <<heads, writers>>
    /\ UNCHANGED slotVars
    /\ UNCHANGED readVars
    /\ UNCHANGED engineVars
    /\ UNCHANGED clusterVars
DeleteChunk ==
    /\ \E blob_id \in Blobs, data \in ChunkDatas :
          /\ chunkDir' = delete_chunk(chunkDir, blob_id, compute_hash(data))
          /\ chunkOut' = [op |-> "delete_chunk", blob_id |-> blob_id, data |-> data,
                          chunk_id |-> compute_hash(data)]
    /\ UNCHANGED <<heads, writers>>
    /\ UNCHANGED slotVars
    /\ UNCHANGED readVars
    /\ UNCHANGED engineVars
    /\ UNCHANGED clusterVars

ChunkNext ==
    \/ PutChunk
    \/ DeleteChunk

ChunkSpec == LocalInit /\ [][ChunkNext]_vars

\* ----------------------------------------- chunk store (writers in steps)
\* the file a writer holds open: the file created at the temporary path, which
\* a rename moves to the chunk path and a later rename there replaces
SamePath(w, v) ==
    writers[w].blob_id = writers[v].blob_id /\ writers[w].data = writers[v].data

\* put_chunk up to the check of chunk_path.exists(): an existing chunk
\* returns its id at once
put_chunk_begin(w, blob_id, data) ==
    /\ writers[w].pc = "idle"
    /\ writers' = IF chunk_file_exists(chunkDir, blob_id, compute_hash(data))
                  THEN writers
                  ELSE [writers EXCEPT ![w] = [pc |-> "create", blob_id |-> blob_id,
                                               data |-> data, fd |-> "none"]]
    /\ UNCHANGED chunkDir

\* File::create(&temp_path): the file is created, or truncated if it exists
put_chunk_create(w) ==
    /\ writers[w].pc = "create"
    /\ chunkDir' = fs_write(chunkDir, temp_path(writers[w].blob_id,
                                compute_hash(writers[w].data)), <<>>)
    /\ writers' = [writers EXCEPT ![w].pc = "write", ![w].fd = "tmp"]

\* write_all, sync_all and drop: the data goes to the file the writer holds
\* open, where that file now is
put_chunk_write(w) ==
    /\ writers[w].pc = "write"
    /\ chunkDir' =
          IF writers[w].fd = "tmp"
          THEN fs_write(chunkDir, temp_path(writers[w].blob_id,
                            compute_hash(writers[w].data)), writers[w].data)
          ELSE IF writers[w].fd = "final"
          THEN fs_write(chunkDir, chunk_path(writers[w].blob_id,
                            compute_hash(writers[w].data)), writers[w].data)
          ELSE chunkDir
    /\ writers' = [writers EXCEPT ![w].pc = "rename", ![w].fd = "none"]

\* fs::rename(&temp_path, &chunk_path) and the return: the rename fails if
\* the temporary file is gone; the files other writers hold open move with it
put_chunk_rename(w) ==
    LET temp == temp_path(writers[w].blob_id, compute_hash(writers[w].data))
        final == chunk_path(writers[w].blob_id, compute_hash(writers[w].data))
    IN  /\ writers[w].pc = "rename"
        /\ chunkDir' = IF path_exists(chunkDir, temp)
                       THEN fs_rename(chunkDir, temp, final) ELSE chunkDir
        /\ writers' = [v \in Writers |->
              IF v = w THEN NoWriter
              ELSE IF ~path_exists(chunkDir, temp) \/ ~SamePath(w, v) THEN writers[v]
              ELSE IF writers[v].fd = "tmp" THEN [writers[v] EXCEPT !.fd = "final"]
              ELSE IF writers[v].fd = "final" THEN [writers[v] EXCEPT !.fd = "gone"]
              ELSE writers[v]]

\* the process stops: its writers are gone, the files stay
crash_mid_write ==
    /\ \E w \in Writers : writers[w].pc # "idle"
    /\ writers' = [w \in Writers |-> NoWriter]
    /\ UNCHANGED chunkDir

PutChunkBegin ==
    /\ \E w \in Writers, blob_id \in {"b1"}, data \in ChunkDatas \ {<<>>} :
          put_chunk_begin(w, blob_id, data)
    /\ UNCHANGED <<heads, chunkOut>>
    /\ UNCHANGED slotVars
    /\ UNCHANGED readVars
    /\ UNCHANGED engineVars
    /\ UNCHANGED clusterVars
PutChunkCreate ==
    /\ \E w \in Writers : put_chunk_create(w)
    /\ UNCHANGED <<heads, chunkOut>>
    /\ UNCHANGED slotVars
    /\ UNCHANGED readVars
    /\ UNCHANGED engineVars
    /\ UNCHANGED clusterVars
PutChunkWrite ==
    /\ \E w \in Writers : put_chunk_write(w)
    /\ UNCHANGED <<heads, chunkOut>>
    /\ UNCHANGED slotVars
    /\ UNCHANGED readVars
    /\ UNCHANGED engineVars
    /\ UNCHANGED clusterVars
PutChunkRename ==
    /\ \E w \in Writers : put_chunk_rename(w)
    /\ UNCHANGED <<heads, chunkOut>>
    /\ UNCHANGED slotVars
    /\ UNCHANGED readVars
    /\ UNCHANGED engineVars
    /\ UNCHANGED clusterVars
CrashMidWrite ==
    /\ crash_mid_write
    /\ UNCHANGED <<heads, chunkOut>>
    /\ UNCHANGED slotVars
    /\ UNCHANGED readVars
    /\ UNCHANGED engineVars
    /\ UNCHANGED clusterVars

ChunkWritersNext ==
    \/ PutChunkBegin
    \/ PutChunkCreate
    \/ PutChunkWrite
    \/ PutChunkRename
    \/ CrashMidWrite

ChunkWritersSpec == LocalInit /\ [][ChunkWritersNext]_vars

\* ------------------------------------------------------ slots of a node
\* slot_for_key: the slot of a path
slot_for_key(path) == IF path = "p" THEN "s1" ELSE "s2"

\* SlotManager::init_slot: the directory of a slot is created once
init_slot(M, slot_id) ==
    IF M[slot_id].inited THEN M
    ELSE [M EXCEPT ![slot_id].inited = TRUE, ![slot_id].dir_creates = @ + 1]

\* get_slot and MetadataStore::new(slot): init_schema opens the database
open_store(M, slot_id) == [M EXCEPT ![slot_id].db_opens = @ + 1]

\* put_blob on the store of every slot
put_blob_in_every_slot(S, slot_id, meta) ==
    [s \in SlotIds |-> [S[s] EXCEPT !.heads = put_blob(@, meta)]]

\* get_slot(slot_id), MetadataStore::new(slot), store.put_blob(meta)
put_blob_in_slot(S, slot_id, meta) ==
    [S EXCEPT ![slot_id].heads = put_blob(@, meta)]

SlotRow(path, version, tomb) ==
    [path |-> path, version |-> version, blob_id |-> 0, tomb |-> tomb]

\* a request arrives
caller_begin(c, op, path, version) ==
    /\ callers[c].pc = "idle"
    /\ callers' = [callers EXCEPT ![c] =
          [NoCaller EXCEPT !.op = op, !.path = path, !.version = version,
                           !.pc = IF op \in {"apply", "run_put"} THEN "check" ELSE op]]
    /\ UNCHANGED <<slotMgr, slotStores>>

\* ensure_store: has_slot; a slot that is held is fetched and its store
\* opened, else init_slot is to be called
ensure_store_check(c) ==
    LET slot_id == slot_for_key(callers[c].path)
    IN  /\ callers[c].pc = "check"
        /\ IF slotMgr[slot_id].inited
           THEN /\ slotMgr' = open_store(slotMgr, slot_id)
                /\ callers' = [callers EXCEPT ![c].pc = "act"]
           ELSE /\ callers' = [callers EXCEPT ![c].pc = "init", ![c].has_slot = FALSE]
                /\ UNCHANGED slotMgr
        /\ UNCHANGED slotStores

\* ensure_store after has_slot was false: init_slot, get_slot and
\* MetadataStore::new
ensure_store_init(c) ==
    LET slot_id == slot_for_key(callers[c].path)
    IN  /\ callers[c].pc = "init"
        /\ slotMgr' = open_store(init_slot(slotMgr, slot_id), slot_id)
        /\ callers' = [callers EXCEPT ![c].pc = "act"]
        /\ UNCHANGED slotStores

\* apply_remote_head_locally (read-repair and repair) after ensure_store
slot_apply(c) ==
    LET slot_id == slot_for_key(callers[c].path)
    IN  /\ callers[c].pc = "act" /\ callers[c].op = "apply"
        /\ slotStores' = [slotStores EXCEPT ![slot_id].heads =
              upsert_with_payload(@, SlotRow(callers[c].path, callers[c].version, FALSE))]
        /\ callers' = [callers EXCEPT ![c].pc = "done", ![c].result = "ok"]
        /\ UNCHANGED slotMgr

\* run_put after ensure_store: the part file and its entry
slot_run_put(c) ==
    LET slot_id == slot_for_key(callers[c].path)
    IN  /\ callers[c].pc = "act" /\ callers[c].op = "run_put"
        /\ slotStores' = [slotStores EXCEPT ![slot_id].parts =
              @ \cup {<<callers[c].path, callers[c].version>>}]
        /\ callers' = [callers EXCEPT ![c].pc = "done", ![c].result = "ok"]
        /\ UNCHANGED slotMgr

\* put_object to begin_transaction: 503 for a slot get_slot does not find;
\* else the store is opened for the version
slot_put_begin(c) ==
    LET slot_id == slot_for_key(callers[c].path)
    IN  /\ callers[c].pc = "put"
        /\ IF ~slotMgr[slot_id].inited
           THEN /\ callers' = [callers EXCEPT ![c].pc = "done", ![c].result = "503"]
                /\ UNCHANGED slotMgr
           ELSE /\ slotMgr' = open_store(slotMgr, slot_id)
                /\ callers' = [callers EXCEPT ![c].pc = "commit",
                      ![c].version =
                          get_max_version(slotStores[slot_id].heads, callers[c].path) + 1]
        /\ UNCHANGED slotStores

\* perform_2pc after the votes: the head is put into the store of the slot
slot_put_commit(c) ==
    LET slot_id == slot_for_key(callers[c].path)
    IN  /\ callers[c].pc = "commit"
        /\ slotMgr' = open_store(slotMgr, slot_id)
        /\ slotStores' = put_blob_in_slot(slotStores, slot_id,
                             SlotRow(callers[c].path, callers[c].version, FALSE))
        /\ callers' = [callers EXCEPT ![c].pc = "done", ![c].result = "201"]

\* delete_object without a version
slot_delete(c) ==
    LET slot_id == slot_for_key(callers[c].path)
        version == get_max_version(slotStores[slot_id].heads, callers[c].path)
    IN  /\ callers[c].pc = "delete"
        /\ IF ~slotMgr[slot_id].inited
           THEN /\ callers' = [callers EXCEPT ![c].pc = "done", ![c].result = "400"]
                /\ UNCHANGED <<slotMgr, slotStores>>
           ELSE /\ slotMgr' = open_store(slotMgr, slot_id)
                /\ slotStores' = [slotStores EXCEPT ![slot_id].heads =
                                     delete_blob(@, callers[c].path, version)]
                /\ callers' = [callers EXCEPT ![c].pc = "done",
                      ![c].result = IF delete_blob_affected(slotStores[slot_id].heads,
                                                            callers[c].path, version)
                                    THEN "200" ELSE "404"]

\* the next step of a request that has begun
caller_step(c) ==
    \/ ensure_store_check(c)
    \/ ensure_store_init(c)
    \/ slot_apply(c)
    \/ slot_run_put(c)
    \/ slot_put_begin(c)
    \/ slot_put_commit(c)
    \/ slot_delete(c)

CallerBegin ==
    /\ \E c \in Callers, op \in {"put", "delete", "apply", "run_put"},
          path \in SlotPaths, version \in Versions :
          /\ op \in {"put", "delete"} => version = 1
          /\ caller_begin(c, op, path, version)
    /\ UNCHANGED <<heads, chunkDir, writers, chunkOut, registered, assigned, scanned>>
    /\ UNCHANGED readVars
    /\ UNCHANGED engineVars
    /\ UNCHANGED clusterVars
EnsureStoreCheck ==
    /\ \E c \in Callers : ensure_store_check(c)
    /\ UNCHANGED <<heads, chunkDir, writers, chunkOut, registered, assigned, scanned>>
    /\ UNCHANGED readVars
    /\ UNCHANGED engineVars
    /\ UNCHANGED clusterVars
EnsureStoreInit ==
    /\ \E c \in Callers : ensure_store_init(c)
    /\ UNCHANGED <<heads, chunkDir, writers, chunkOut, registered, assigned, scanned>>
    /\ UNCHANGED readVars
    /\ UNCHANGED engineVars
    /\ UNCHANGED clusterVars
SlotApply ==
    /\ \E c \in Callers : slot_apply(c)
    /\ UNCHANGED <<heads, chunkDir, writers, chunkOut, registered, assigned, scanned>>
    /\ UNCHANGED readVars
    /\ UNCHANGED engineVars
    /\ UNCHANGED clusterVars
SlotRunPut ==
    /\ \E c \in Callers : slot_run_put(c)
    /\ UNCHANGED <<heads, chunkDir, writers, chunkOut, registered, assigned, scanned>>
    /\ UNCHANGED readVars
    /\ UNCHANGED engineVars
    /\ UNCHANGED clusterVars
SlotPutBegin ==
    /\ \E c \in Callers : slot_put_begin(c)
    /\ UNCHANGED <<heads, chunkDir, writers, chunkOut, registered, assigned, scanned>>
    /\ UNCHANGED readVars
    /\ UNCHANGED engineVars
    /\ UNCHANGED clusterVars
SlotPutCommit ==
    /\ \E c \in Callers : slot_put_commit(c)
    /\ UNCHANGED <<heads, chunkDir, writers, chunkOut, registered, assigned, scanned>>
    /\ UNCHANGED readVars
    /\ UNCHANGED engineVars
    /\ UNCHANGED clusterVars
SlotDelete ==
    /\ \E c \in Callers : slot_delete(c)
    /\ UNCHANGED <<heads, chunkDir, writers, chunkOut, registered, assigned, scanned>>
    /\ UNCHANGED readVars
    /\ UNCHANGED engineVars
    /\ UNCHANGED clusterVars

\* a node that holds each slot from its start or not yet
SlotInit ==
    /\ ClusterIdle
    /\ ReadIdle
    /\ config = [n \in Nodes |-> [current_node |-> n, nodes |-> Nodes,
                                  replication |-> [min_write_replicas |-> MinWriteReplicas,
                                                   total_slots |-> 4],
                                  init_scan |-> FALSE]]
    /\ store = [n \in Nodes |-> {}]
    /\ chunks = [n \in Nodes |-> {}]
    /\ hasSlot = {}
    /\ health = {}
    /\ tx = [t \in TxIds |-> NoTx]
    /\ prepared = [n \in Nodes |-> {}]
    /\ nextTx = 1
    /\ heads = {}
    /\ chunkDir = {}
    /\ writers = [w \in Writers |-> NoWriter]
    /\ chunkOut = NoChunkOut
    /\ slotMgr \in [SlotIds -> {NoSlot, init_slot([s \in SlotIds |-> NoSlot], "s1")["s1"]}]
    /\ slotStores = [s \in SlotIds |-> NoSlotStore]
    /\ callers = [c \in Callers |-> NoCaller]
    /\ NoStart

SlotNext ==
    \/ CallerBegin
    \/ EnsureStoreCheck
    \/ EnsureStoreInit
    \/ SlotApply
    \/ SlotRunPut
    \/ SlotPutBegin
    \/ SlotPutCommit
    \/ SlotDelete

SlotSpec == SlotInit /\ [][SlotNext]_vars

\* ------------------------------------------------------ slot assignment
\* the number of slots of the cluster
TOTAL_SLOTS == MaxSlots

\* Registry::get_nodes: the registered nodes, in some order
get_nodes == SeqsOf(registered)

\* nodes.iter().position(|n| n.node_id == my_node_id).unwrap_or(0), from 0
position(nodes, my_node_id) ==
    IF \E i \in 1..Len(nodes) : nodes[i] = my_node_id
    THEN (CHOOSE i \in 1..Len(nodes) : nodes[i] = my_node_id) - 1
    ELSE 0

\* assign_slots, the slots of my_node_id given the node list it has read:
\* TOTAL_SLOTS / node_count slots from my_index * slots_per_node on, and the
\* rest of the slots for the last node of the list
my_slots(nodes, my_node_id) ==
    LET node_count == Max({Len(nodes), 1})
        slots_per_node == TOTAL_SLOTS \div node_count
        my_index == position(nodes, my_node_id)
        start_slot == my_index * slots_per_node
        end_slot == IF my_index = node_count - 1 THEN TOTAL_SLOTS
                    ELSE start_slot + slots_per_node
    IN  start_slot..(end_slot - 1)

\* run_server: the node registers in the registry
register_node(n) ==
    /\ n \notin registered
    /\ registered' = registered \cup {n}
    /\ UNCHANGED assigned

\* run_server: the registered node reads the node list and gives itself its
\* slots, each of which it initialises
assign_slots(n) ==
    /\ n \in registered
    /\ assigned[n] = NotAssigned
    /\ \E nodes \in get_nodes :
          assigned' = [assigned EXCEPT ![n] = my_slots(nodes, n)]
    /\ UNCHANGED registered

RegisterNode ==
    /\ \E n \in StartNodes : register_node(n)
    /\ UNCHANGED <<heads, slotMgr, slotStores, callers, scanned>>
    /\ UNCHANGED chunkVars
    /\ UNCHANGED readVars
    /\ UNCHANGED engineVars
    /\ UNCHANGED clusterVars
AssignSlots ==
    /\ \E n \in StartNodes : assign_slots(n)
    /\ UNCHANGED <<heads, slotMgr, slotStores, callers, scanned>>
    /\ UNCHANGED chunkVars
    /\ UNCHANGED readVars
    /\ UNCHANGED engineVars
    /\ UNCHANGED clusterVars

StartNext == RegisterNode \/ AssignSlots

StartSpec == LocalInit /\ [][StartNext]_vars

\* ------------------------------------------------- init scan (heads)
\* the entries of the init-scan feed: size_bytes and part_size are u64
ScanEntries ==
    [path : Paths, size_bytes : 0..MaxU64, part_size : 0..MaxU64,
     archive_url : {"s3://x/k"}]

\* MetadataStore::next_generation over the heads the scan has inserted
scan_next_generation(path) ==
    Max({0} \cup {m.generation : m \in {h \in scanned : h.path = path}}) + 1

\* the BlobMeta of an entry
scan_meta(entry, generation, part_size, part_count) ==
    [path |-> entry.path, generation |-> generation, version |-> generation,
     size_bytes |-> entry.size_bytes, part_size |-> part_size,
     part_count |-> part_count, part_index_state |-> "None",
     archive_url |-> <<"Some", entry.archive_url>>]

\* InitClusterOperation::run_init_scan, one entry of the feed: part_size is
\* entry.part_size.max(1), part_count is size_bytes.div_ceil(part_size) cast
\* to u32, and the meta is upserted at the next generation of the path
library_scan_entry(entry) ==
    LET generation == scan_next_generation(entry.path)
        part_size == Max({entry.part_size, 1})
        part_count == IF entry.size_bytes = 0 THEN 0
                      ELSE div_ceil(entry.size_bytes, part_size) % (MaxU32 + 1)
    IN  /\ generation <= MaxGen
        /\ scanned' = scanned \cup {scan_meta(entry, generation, part_size, part_count)}

\* run_optional_init_scan of the server, one entry of the feed: part_count
\* is (size_bytes + part_size - 1) / part_size cast to u32; the sum is a u64
\* sum, which past the largest u64 stops the run in a build with overflow
\* checks and wraps in a build without
server_scan_entry(entry, overflow_checks) ==
    LET generation == scan_next_generation(entry.path)
        part_size == Max({entry.part_size, 1})
        sum == entry.size_bytes + part_size - 1
        part_count == IF entry.size_bytes = 0 THEN 0
                      ELSE ((sum % (MaxU64 + 1)) \div part_size) % (MaxU32 + 1)
    IN  /\ generation <= MaxGen
        /\ IF entry.size_bytes # 0 /\ sum > MaxU64 /\ overflow_checks
           THEN UNCHANGED scanned
           ELSE scanned' = scanned \cup
                               {scan_meta(entry, generation, part_size, part_count)}

LibraryScanEntry ==
    /\ \E entry \in ScanEntries : library_scan_entry(entry)
    /\ UNCHANGED <<heads, slotMgr, slotStores, callers, registered, assigned>>
    /\ UNCHANGED chunkVars
    /\ UNCHANGED readVars
    /\ UNCHANGED engineVars
    /\ UNCHANGED clusterVars
ServerScanEntry ==
    /\ \E entry \in ScanEntries, overflow_checks \in BOOLEAN :
          server_scan_entry(entry, overflow_checks)
    /\ UNCHANGED <<heads, slotMgr, slotStores, callers, registered, assigned>>
    /\ UNCHANGED chunkVars
    /\ UNCHANGED readVars
    /\ UNCHANGED engineVars
    /\ UNCHANGED clusterVars

ScanNext == LibraryScanEntry \/ ServerScanEntry

ScanSpec == LocalInit /\ [][ScanNext]_vars

\* ------------------------------------------------------------ properties
Participants(t) == Range(tx[t].parts)

SameKey(t1, t2) == tx[t1].path = tx[t2].path /\ tx[t1].version = tx[t2].version

AllVotedYes(t) == \A r \in Participants(t) : tx[t].votes[r] = "Yes"

HoldsBlob(n, t) == \E r \in store[n] : r.blob_id = t

\* a row of n's store that this step turns into a tombstone
Tombstoned(n, r) ==
    /\ r \in store[n]
    /\ ~r.tomb
    /\ r \notin store'[n]
    /\ [r EXCEPT !.tomb = TRUE] \in store'[n]

\* C1: of two write transactions on the same (slot, path) that propose the
\* same generation, at most one is committed cluster-wide
C1_AtMostOneCommitPerGeneration ==
    \A t1, t2 \in TxIds :
        (t1 # t2 /\ tx[t1].state = "Committed" /\ tx[t2].state = "Committed")
            => ~SameKey(t1, t2)

\* C2: a write whose commit returned success leads to every replica of its
\* participant set having a current head with generation >= the committed one
C2_CommittedReachesEveryParticipant ==
    \A t \in TxIds :
        (put_response(t) = "201")
            ~> (\A r \in Participants(t) :
                    get_current_head(store[r], tx[t].path).version >= tx[t].version)

\* C3: when the write returns success every replica of the participant set
\* holds the committed head, and when the transaction aborts no replica does
C3_CommitNeverPartiallyVisible ==
    [][\A t \in TxIds :
          /\ (put_response(t) # "201" /\ put_response(t)' = "201")
                => \A r \in Range(tx'[t].parts) : BlobMetaOf(t)' \in store'[r]
          /\ (put_response(t) # "500" /\ put_response(t)' = "500")
                => \A n \in Nodes : ~HoldsBlob(n, t)'
      ]_vars

\* C4: the coordinator decides Commit iff every participant's recorded vote
\* is Yes and Abort otherwise; Committed and Aborted are absorbing and
\* exclusive; an abort answers the TwoPhaseCommit error and the proposed head
\* is in no local metadata store
C4_DecisionState ==
    \A t \in TxIds :
        /\ tx[t].pc \in {"apply", "done"} <=> tx[t].state \in {"Committed", "Aborted"}
        /\ tx[t].state = "Committed" => AllVotedYes(t)
        /\ tx[t].state = "Aborted" =>
              /\ ~AllVotedYes(t)
              /\ put_response(t) = "500"
              /\ \A n \in Nodes : ~HoldsBlob(n, t)

C4_DecisionStep ==
    \A t \in TxIds :
        /\ tx[t].state = "Committed" => tx'[t].state = "Committed"
        /\ tx[t].state = "Aborted" => tx'[t] = tx[t]

C4_CommitIffAllYes == []C4_DecisionState /\ [][C4_DecisionStep]_vars

\* a committed and an aborted transaction side by side
C4_Witness ==
    \E t1, t2 \in TxIds :
        /\ put_response(t1) = "201" /\ AllVotedYes(t1)
        /\ put_response(t2) = "500" /\ ~AllVotedYes(t2)

\* C5: Yes is recorded for a participant, local or remote, only if that
\* participant's store has no head with generation >= the proposed one
C5_RecordedVoteIsParticipantsVote ==
    [][\A t \in TxIds, r \in Nodes :
          (tx[t].votes[r] # "Yes" /\ tx'[t].votes[r] = "Yes")
              => get_max_version(store[r], tx'[t].path) < tx'[t].version
      ]_vars

\* C6: once a head at generation g is stored for a path, no operation creates
\* or replaces a head at a generation <= g for that path
C6_NoHeadAtOrBelowStoredGeneration ==
    [][\A n \in Nodes, p \in Paths, g \in Versions :
          g <= get_max_version(store[n], p)
              => get_blob(store'[n], p, g) = get_blob(store[n], p, g)
      ]_vars

\* C7: on every replica the generation of the head that reads resolve as
\* current never decreases
C7_CurrentGenerationMonotone ==
    [][\A n \in Nodes, p \in Paths :
          (get_latest_blob(store[n], p) # NoRow /\ get_latest_blob(store'[n], p) # NoRow)
              => get_latest_blob(store'[n], p).version >= get_latest_blob(store[n], p).version
      ]_vars

\* C8: after a path has been deleted at generation g, a read without a
\* version returns no content unless it is of a generation > g
C8_TombstoneMonotonicity ==
    \A n \in hasSlot, p \in Paths :
        get_object_local(n, p, NoVersion).status = "200"
            => \A r \in RowsOf(store[n], p) :
                   r.tomb => r.version < get_object_local(n, p, NoVersion).version

\* C9: DELETE of a path whose current head is at generation g records the
\* tombstone as a new head at g+1; the following GET answers 410 and the next
\* PUT without a version gets g+2; a GET after a PUT returns the new body
C9_TombstoneThenOverwrite ==
    [][/\ \A n \in Nodes : \A r \in store[n] :
             (Tombstoned(n, r) /\ r.version = get_max_version(store[n], r.path))
                 => /\ \E q \in store'[n] :
                           q.path = r.path /\ q.version = r.version + 1 /\ q.tomb
                    /\ get_object_local(n, r.path, NoVersion)'.status = "410"
                    /\ get_max_version(store'[n], r.path) + 1 = r.version + 2
       /\ \A t \in TxIds :
             (tx[t].pc = "apply" /\ put_response(t)' = "201"
                 /\ tx[t].version = get_max_version(store[tx[t].coord], tx[t].path) + 1)
                 => get_object_local(tx[t].coord, tx[t].path, NoVersion)'.blob_id = t
      ]_vars

\* C10: after a successful DELETE every replica of the slot holds the
\* tombstone, not only the node that received the request
C10_DeleteReachesEveryReplica ==
    [][\A n \in Nodes : \A r \in store[n] :
          Tombstoned(n, r)
              => \A m \in hasSlot :
                     \E q \in store'[m] :
                         q.path = r.path /\ q.version = r.version /\ q.tomb
      ]_vars

\* ------------------------------------------------- properties (bootstrap)
Returned(i) == run[i].pc \in {"ok", "serving"}

Ended(i) == run[i].pc \in {"ok", "serving", "err"}

ReportsWon(i) == Returned(i) /\ run[i].won

Persisted == decode_bootstrap(bootstrap)

ReturnsPersisted(i) ==
    /\ bootstrap # NoBytes
    /\ run[i].result = Persisted
    /\ encode_bootstrap(run[i].result) = bootstrap

C12_RecordNeverChanges ==
    [][/\ bootstrap # NoBytes => bootstrap' = bootstrap
       /\ \A i \in RunIds :
             /\ (run[i].pc = "idle" /\ run'[i].pc # "idle" /\ bootstrap # NoBytes)
                   => /\ run'[i].pc \in {"ok", "err"}
                      /\ ~run'[i].attempted
                      /\ ~run'[i].won
             /\ Ended(i) => /\ run'[i].attempted = run[i].attempted
                            /\ run'[i].won = run[i].won
      ]_vars

\* a run found the record of another configuration and returned it
C12_Witness ==
    \E i \in RunIds :
        /\ Returned(i) /\ ~run[i].attempted /\ ~run[i].won
        /\ config[run[i].node].replication # Persisted.replication
        /\ ReturnsPersisted(i)

\* C13: a run returns success only if its node is in the node list of the
\* persisted record; a run that ended while its node is not in the list
\* failed with a Config error and created no local directory
C13_SuccessOnlyForListedNode ==
    /\ \A i \in RunIds : Returned(i) => run[i].node \in Persisted.nodes
    /\ \A i \in RunIds :
          (Ended(i) /\ bootstrap # NoBytes /\ run[i].node \notin Persisted.nodes)
              => /\ run[i].pc = "err"
                 /\ run[i].error = "Config"
                 /\ ~run[i].dirs
    /\ \A n \in dirs : n \in Persisted.nodes

\* a Config failure after the create attempt and one on a record found present
C13_Witness ==
    \E i, j \in RunIds :
        /\ run[i].pc = "err" /\ run[i].error = "Config" /\ run[i].attempted
        /\ run[j].pc = "err" /\ run[j].error = "Config" /\ ~run[j].attempted

\* C14: the init scan is started only by the run whose create attempt won,
\* hence at most once cluster-wide
C14_ScanOnlyByWinner ==
    /\ \A i \in RunIds : run[i].scan_slots # 0 => (run[i].attempted /\ run[i].won)
    /\ Cardinality({i \in RunIds : run[i].scan_slots # 0}) <= 1

\* the winner's scan failed and the re-run of the same node, with the scan
\* configured, returned without a scan
C14_Witness ==
    \E i, j \in RunIds :
        /\ run[i].pc = "err" /\ run[i].scan_slots # 0
        /\ Returned(j) /\ run[j].node = run[i].node
        /\ config[run[j].node].init_scan
        /\ run[j].scan_slots = 0

\* C15: a serving node runs with the replication parameters of the persisted
\* record, the scan computes slots with the persisted total_slots, and the
\* persisted parameters and a serving node's parameters never change
C15_RuntimeState ==
    /\ \A i \in RunIds :
          run[i].pc = "serving" => run[i].runtime = Persisted.replication
    /\ \A i, j \in RunIds :
          (run[i].pc = "serving" /\ run[j].pc = "serving")
              => run[i].runtime.total_slots = run[j].runtime.total_slots
    /\ \A i \in RunIds :
          run[i].scan_slots # 0 => run[i].scan_slots = Persisted.replication.total_slots

C15_RuntimeStep ==
    /\ bootstrap # NoBytes =>
          decode_bootstrap(bootstrap').replication = Persisted.replication
    /\ \A i \in RunIds : run[i].pc = "serving" => run'[i].runtime = run[i].runtime

C15_RuntimeFromPersistedRecord == []C15_RuntimeState /\ [][C15_RuntimeStep]_vars

\* a node serves with parameters that differ from those of its own file
C15_Witness ==
    \E i \in RunIds :
        /\ run[i].pc = "serving"
        /\ config[run[i].node].replication # run[i].runtime
        /\ run[i].runtime = Persisted.replication

\* ------------------------------------------------- properties (reads)
\* C16: a read of the inclusive range [s, e], 0 <= s <= e < size, of a blob
\* put with body B that succeeds returns exactly the bytes B[s..=e], and a
\* read without a range returns exactly B; this is stated of the part reader
\* (read_blob) and of the chunk reader (get_object)
C16_RangeReadReturnsRange ==
    LET size == IF readOut.op = "get_object" THEN objMeta.size
                ELSE blobMeta.size_bytes
        r == readOut.range
    IN  (readOut.op \in {"read_blob", "get_object"}
            /\ readOut.outcome \in {"Found", "200"})
        => /\ r = NoRange => readOut.body = Body(size)
           /\ (r # NoRange /\ 0 <= r.start /\ r.start <= r.end /\ r.end < size)
                 => readOut.body = Slice(Body(size), r.start, r.end + 1)

\* C17: a body read with a requested range fails with InvalidRequest if and
\* only if start > end or end >= size_bytes (so every range on an empty blob
\* is rejected); an accepted range is used unchanged and an absent range is
\* [0, size_bytes - 1]; a rejected request fetches and stores no part
C17_RangeState ==
    LET r == readOut.range
        size == blobMeta.size_bytes
    IN  readOut.op = "read_blob"
        => /\ readOut.outcome = "InvalidRequest"
                <=> (r # NoRange /\ (r.start > r.end \/ r.end >= size))
           /\ (readOut.outcome = "Found" /\ size > 0)
                => readOut.body_range =
                      IF r # NoRange THEN r ELSE [start |-> 0, end |-> size - 1]
           /\ readOut.outcome = "InvalidRequest" => readOut.fetched = {}
C17_RangeStep ==
    (readOut.op = "none" /\ readOut'.op = "read_blob"
        /\ readOut'.outcome = "InvalidRequest")
    => UNCHANGED <<partEntries, partFiles>>
C17_RangeValidation == []C17_RangeState /\ [][C17_RangeStep]_vars

\* a range past the end of a blob that only the archive holds is rejected
C17_Witness ==
    /\ readOut.op = "read_blob"
    /\ readOut.outcome = "InvalidRequest"
    /\ blobMeta.size_bytes > 0
    /\ blobMeta.archive_url
    /\ readOut.range.start <= readOut.range.end
    /\ \A k \in DOMAIN partEntries : ~partEntries[k].present

\* C18: on a fresh cluster in which one node holds the slot and every store
\* is empty, the first PUT is not turned away: its acceptance depends neither
\* on a blob in the slot nor on a health report
C18_FirstPutAccepted ==
    \A n \in Nodes :
        (/\ hasSlot = {n}
         /\ nextTx = 1
         /\ \A m \in Nodes : store[m] = {} /\ chunks[m] = {})
        => put_object_rejected(n) = "none"

\* the head of 9 bytes in 3 parts of 4 that only names an archive, no part
\* entry and no part file local, and a read of the range [3, 6] answered
\* from the archive alone
C19_ArchiveRead ==
    /\ blobMeta = [size_bytes |-> 9, part_size |-> 4, part_count |-> 3,
                   archive_url |-> TRUE]
    /\ \A k \in DOMAIN partEntries : ~partEntries[k].present
    /\ partFiles = {}
    /\ readOut.op = "none"
    /\ readOut'.op = "read_blob"
    /\ readOut'.range = [start |-> 3, end |-> 6]
    /\ readOut'.outcome = "Found"
    /\ \A f \in readOut'.fetched : f.source = "archive"
C19_FetchesAndBody ==
    /\ readOut'.fetched = {Fetch("archive", 0, 0, 3), Fetch("archive", 1, 4, 7)}
    /\ readOut'.body = Slice(Body(9), 3, 7)
ArchiveEntries(entries) ==
    {k \in DOMAIN entries : entries[k].present /\ entries[k].archive_url}

\* C19 as claimed: the read fetches the ranges of parts 0 and 1 from the
\* archive, returns the bytes 3..=6 and leaves part_count part entries with
\* archive provenance
C19_LeavesPartCountEntries ==
    [][C19_ArchiveRead
        => /\ C19_FetchesAndBody
           /\ Cardinality(ArchiveEntries(partEntries')) = blobMeta.part_count]_vars

\* C19, amended: the read fetches the ranges of parts 0 and 1 from the
\* archive, returns the bytes 3..=6 and leaves part entries with archive
\* provenance for the parts the range covers, 0 and 1, and none for part 2
C19_LeavesEntriesOfCoveredParts ==
    [][C19_ArchiveRead
        => /\ C19_FetchesAndBody
           /\ ArchiveEntries(partEntries') = {0, 1}
           /\ ~partEntries'[2].present]_vars

\* the state after such a read
C19_Witness ==
    /\ blobMeta = [size_bytes |-> 9, part_size |-> 4, part_count |-> 3,
                   archive_url |-> TRUE]
    /\ readOut.op = "read_blob"
    /\ readOut.range = [start |-> 3, end |-> 6]
    /\ readOut.outcome = "Found"
    /\ readOut.fetched = {Fetch("archive", 0, 0, 3), Fetch("archive", 1, 4, 7)}
    /\ ArchiveEntries(partEntries) = {0, 1}
    /\ ~partEntries[2].present

\* C20: for every part entry whose referenced local file exists, the
\* SHA-256 of the bytes of the file equals the sha256 of the entry, whether
\* the part was written by a peer upload, a read-repair fetch, a repair from
\* a head or an archive restore
C20_PartEntriesMatchFiles ==
    \A k \in DOMAIN partEntries :
        partEntries[k].present
        => \A f \in partFiles :
              (f.path = partEntries[k].external_path
                  \/ f.path = part_path(k, partEntries[k].sha256))
              => compute_hash(f.bytes) = partEntries[k].sha256

\* a read has fetched a part from a peer, entered it and holds its file
C20_Witness ==
    /\ readOut.op = "read_blob"
    /\ readOut.outcome = "Found"
    /\ \E f \in readOut.fetched :
          /\ f.source = "peer_by_index"
          /\ partEntries[f.part_no].present
          /\ ~partEntries[f.part_no].archive_url
          /\ \E g \in partFiles : g.path = partEntries[f.part_no].external_path

\* ------------------------------------------- properties (local stores)
\* C21: applying the same head to the metadata store a second time leaves
\* the store unchanged, and storing the same part bytes under the same key
\* a second time rewrites nothing and reports reused = true
C21_HeadApplyIdempotent ==
    \A p \in Paths, head \in RemoteHeads :
        LET once == apply_remote_head(heads, LocalSlot, p, head)
        IN  apply_remote_head(once, LocalSlot, p, head) = once

C21_PartPutIdempotent ==
    \A part_no \in DOMAIN partEntries :
        LET bytes == PartBytes(part_no)
            once == put_part(partFiles, part_no, compute_hash(bytes), bytes)
            twice == put_part(once.files, part_no, compute_hash(bytes), bytes)
        IN  once.ok /\ twice.ok /\ twice.reused /\ twice.files = once.files

\* a run_put of a part whose file exists reports reused and writes no file
C21_SecondPutStep ==
    (/\ readOut'.op = "run_put"
     /\ readOut = NoOut
     /\ readOut'.outcome = "ok"
     /\ part_exists(partFiles, readOut'.part,
                    compute_hash(PartBytes(readOut'.part))))
        => (readOut'.reused /\ partFiles' = partFiles)

C29_HeadHashMatchesPayload ==
    \A h \in heads : h.head_sha256 = compute_hash(h.inline_data)

\* C22: put_chunk returns the SHA-256 of the data as the chunk id; afterwards
\* get_chunk returns exactly the data, chunk_exists is true and
\* list_blob_chunks returns exactly the ids stored for the blob; after
\* delete_chunk, chunk_exists is false and get_chunk fails with not-found
C22_AfterCall ==
    LET blob_id == chunkOut.blob_id
        chunk_id == chunkOut.chunk_id
    IN  /\ chunkOut.op = "put_chunk" =>
              /\ chunk_id = compute_hash(chunkOut.data)
              /\ get_chunk_file(chunkDir, blob_id, chunk_id)
                     = [ok |-> TRUE, data |-> chunkOut.data]
              /\ chunk_file_exists(chunkDir, blob_id, chunk_id)
        /\ chunkOut.op = "delete_chunk" =>
              /\ ~chunk_file_exists(chunkDir, blob_id, chunk_id)
              /\ ~get_chunk_file(chunkDir, blob_id, chunk_id).ok

\* the listing of a blob gains the id a put_chunk returns, loses the id
\* delete_chunk is given, and is otherwise as it was
C22_ListStep ==
    \A blob_id \in Blobs :
        list_blob_chunks(chunkDir', blob_id) =
            IF chunkOut'.blob_id # blob_id THEN list_blob_chunks(chunkDir, blob_id)
            ELSE IF chunkOut'.op = "put_chunk"
            THEN list_blob_chunks(chunkDir, blob_id) \cup {<<chunkOut'.chunk_id, "">>}
            ELSE list_blob_chunks(chunkDir, blob_id) \ {<<chunkOut'.chunk_id, "">>}

C22_ChunkStoreContract ==
    /\ [](C22_AfterCall /\ \A blob_id \in Blobs :
                                list_blob_chunks(chunkDir, blob_id) \subseteq
                                    {<<compute_hash(d), "">> : d \in ChunkDatas})
    /\ [][C22_ListStep]_vars

C22_Witness ==
    /\ chunkOut.op = "delete_chunk"
    /\ chunkDir # {}
    /\ ~chunk_file_exists(chunkDir, chunkOut.blob_id, chunkOut.chunk_id)

\* C23: under any interleaving of writers of the same or of different
\* chunks, readers and a crash in the middle of a write, no reader (get,
\* exists, list) observes a chunk with partial bytes or a temporary file
C23_ListShowsNoTemporaryFile ==
    \A blob_id \in Blobs :
        \A name \in list_blob_chunks(chunkDir, blob_id) : name[2] = ""

C23_GetReturnsWholeChunk ==
    \A blob_id \in Blobs, data \in ChunkDatas :
        chunk_file_exists(chunkDir, blob_id, compute_hash(data))
            => get_chunk_file(chunkDir, blob_id, compute_hash(data)).data = data

C23_ReadersSeeWholeChunks ==
    C23_GetReturnsWholeChunk /\ C23_ListShowsNoTemporaryFile

\* C24: storing a part whose bytes do not hash to the supplied sha256 fails
\* with HashMismatch, and neither the part file nor the part entry is
\* written and no slot is initialised
C24_MismatchStep ==
    (/\ readOut = NoOut
     /\ readOut'.op = "run_put"
     /\ readOut'.outcome # "ok")
        => /\ readOut'.outcome = "HashMismatch"
           /\ partFiles' = partFiles
           /\ partEntries' = partEntries
           /\ hasSlot' = hasSlot

C24_MismatchFailsWithHashMismatch == [][C24_MismatchStep]_vars

\* ------------------------------------------------- properties (slots)
\* C25: under concurrent callers that reach ensure_store for the same
\* uninitialised slot, the directory of the slot is created at most once and
\* its metadata store is opened at most once
C25_SlotInitialisedOnce ==
    \A s \in SlotIds :
        (\A c \in Callers :
            (callers[c].pc # "idle" /\ slot_for_key(callers[c].path) = s)
                => (callers[c].op \in {"apply", "run_put"} /\ ~callers[c].has_slot))
            => (slotMgr[s].dir_creates <= 1 /\ slotMgr[s].db_opens <= 1)

\* C27: a PUT, DELETE, read-repair or repair on a path of slot s changes only
\* the metadata store and the part files of slot s, and a PUT on a slot the
\* node holds is never kept waiting by, and never fails for, a request on
\* another slot
C27_OnlyOwnSlotStep ==
    \A s \in SlotIds :
        (slotStores'[s] # slotStores[s] \/ slotMgr'[s] # slotMgr[s])
            => \E c \in Callers : /\ callers'[c] # callers[c]
                                  /\ slot_for_key(callers[c].path) = s

C27_PutStep ==
    \A c \in Callers :
        (callers[c].pc = "put" /\ callers'[c].result = "503")
            => ~slotMgr[slot_for_key(callers[c].path)].inited

C27_NeverWaits ==
    \A c, d \in Callers :
        (/\ callers[c].pc \in {"put", "commit"}
         /\ callers[d].pc # "idle"
         /\ slot_for_key(callers[c].path) # slot_for_key(callers[d].path))
            => ENABLED caller_step(c)

C26_Rejected ==
    Len(get_healthy_replicas) < MinWriteReplicas
        => \A n \in Nodes : put_object_rejected(n) = "503"

C26_NothingWrittenStep ==
    Len(get_healthy_replicas) < MinWriteReplicas
        => /\ chunks' = chunks
           /\ nextTx' = nextTx
           /\ \A t \in TxIds : tx[t] = NoTx => tx'[t] = NoTx
           /\ (\E n \in Nodes, p \in Paths, qv \in {NoVersion} \cup Versions :
                   put_object(n, p, qv)) => UNCHANGED vars

C26_InsufficientReplicasRejected ==
    /\ []C26_Rejected
    /\ [][C26_NothingWrittenStep]_vars

C26_Witness ==
    /\ Len(get_healthy_replicas) < MinWriteReplicas
    /\ \E n \in hasSlot : put_object_rejected(n) = "503"

\* C28: a PUT without a version is given 1 + the highest generation of any
\* head of the path, tombstones included, or 1 when there is none, so that
\* the allocations for one path are strictly increasing: the next
\* allocation is above the generation of every PUT the node accepted
C28_OneAboveHighestHead ==
    \A n \in Nodes, p \in Paths :
        put_object_version(n, p, NoVersion) =
            IF RowsOf(store[n], p) = {} THEN 1
            ELSE 1 + Max({r.version : r \in RowsOf(store[n], p)})

C28_AboveAcceptedPuts ==
    \A t \in TxIds :
        put_response(t) = "201"
            => put_object_version(tx[t].coord, tx[t].path, NoVersion) > tx[t].version

C28_AllocationsIncrease == C28_OneAboveHighestHead /\ C28_AboveAcceptedPuts

\* C30: read_blob returns NotFound only if the local store has no head and
\* every other replica of the list has none; a head that a peer returns is
\* applied locally, after which the local store has a head with generation
\* >= the peer's
C30_NotFoundOnlyIfNoHeadAnywhere ==
    \A n \in Nodes, p \in Paths, replicas \in SeqsOf(Nodes) :
        read_blob_outcome(n, p, replicas).status = "NotFound"
            => /\ get_current_head(store[n], p) = NoRow
               /\ \A m \in Range(replicas) \ {n} : fetch_remote_head(m, p) = NoRow

C30_PeerHeadAppliedStep ==
    \A n \in Nodes, p \in Paths, replicas \in SeqsOf(Nodes) :
        (/\ get_current_head(store[n], p) = NoRow
         /\ ensure_head_available(n, p, replicas) # NoRow
         /\ read_blob(n, p, replicas))
            => /\ get_current_head(store'[n], p) # NoRow
               /\ get_current_head(store'[n], p).version
                      >= ensure_head_available(n, p, replicas).version

C30_HeadDiscovery ==
    /\ []C30_NotFoundOnlyIfNoHeadAnywhere
    /\ [][C30_PeerHeadAppliedStep]_vars

C30_Witness ==
    \E n, m \in Nodes :
        /\ n # m
        /\ \E r \in store[n] : r \in store[m]

\* ------------------------------------------- properties (part sources)
\* what a read finds before it starts: the entry of part k names a file that
\* is there, the hash the entry expects, whether an archive is named
C31_LocalUsable(k) ==
    /\ partEntries[k].present
    /\ \E f \in partFiles :
          \/ f.path = part_path(k, partEntries[k].sha256)
          \/ f.path = partEntries[k].external_path
C31_Expected(k) == IF partEntries[k].present THEN partEntries[k].sha256 ELSE <<>>
C31_HasArchive(k) ==
    (partEntries[k].present /\ partEntries[k].archive_url) \/ blobMeta.archive_url

\* the answer of a source is of no use: no answer, a wrong length, or bytes
\* that do not hash to the expected hash
C31_ArchiveFailed(k, archive_mode) ==
    LET r == part_byte_range(blobMeta, k)
        got == fetch_archive_range_bytes(r.start, r.end, archive_mode)
    IN  \/ ~got.ok
        \/ Len(got.bytes) # r.end - r.start + 1
        \/ C31_Expected(k) # <<>> /\ compute_hash(got.bytes) # C31_Expected(k)
C31_PeerFailed(k, mode) ==
    LET payload == fetch_part(k, mode)
    IN  \/ ~payload.ok
        \/ C31_Expected(k) # <<>> /\ compute_hash(payload.bytes) # C31_Expected(k)

\* the sources a read has contacted for part k
C31_ArchiveContacted(F, k) == \E f \in F : f.source = "archive" /\ f.part_no = k
C31_PeerContacted(F, k, i) ==
    \E f \in F : /\ f.source \in {"peer_by_sha", "peer_by_index"}
                  /\ f.part_no = k
                  /\ f.start = i

C31_SourceOrderStep ==
    \A archive_mode \in ArchiveModes, peers \in PeerLists :
        (/\ readOut = NoOut
         /\ readOut'.op = "read_blob"
         /\ read_blob_body(TRUE, readOut'.range, archive_mode, peers))
        => LET F == readOut'.fetched
           IN  /\ \A k \in DOMAIN partEntries :
                     /\ C31_ArchiveContacted(F, k)
                          => ~C31_LocalUsable(k) /\ C31_HasArchive(k)
                     /\ \A i \in 1..Len(peers) :
                          C31_PeerContacted(F, k, i)
                          => /\ ~C31_LocalUsable(k)
                             /\ C31_HasArchive(k)
                                  => /\ C31_ArchiveContacted(F, k)
                                     /\ C31_ArchiveFailed(k, archive_mode)
                             /\ \A j \in 1..(i - 1) :
                                  /\ C31_PeerContacted(F, k, j)
                                  /\ C31_PeerFailed(k, peers[j])
               /\ readOut'.outcome \notin {"Found", "InvalidRequest"}
                     => /\ readOut'.outcome = "PartNotFound"
                        /\ \E k \in DOMAIN partEntries :
                              /\ ~C31_LocalUsable(k)
                              /\ C31_HasArchive(k)
                                   => /\ C31_ArchiveContacted(F, k)
                                      /\ C31_ArchiveFailed(k, archive_mode)
                              /\ \A i \in 1..Len(peers) :
                                   /\ C31_PeerContacted(F, k, i)
                                   /\ C31_PeerFailed(k, peers[i])

\* C31: a part is taken from the local file first, then from the archive
\* when the part entry or the blob meta names one, then from each peer in
\* turn; a source is contacted only after every earlier one has failed, a
\* failed archive fetch falls through to the peers, and the read fails, with
\* PartNotFound, only when every source of a part has failed
C31_SourcesInOrder == [][C31_SourceOrderStep]_vars

\* a read answered by the second peer after the archive and the first peer
\* have failed
C31_Witness ==
    /\ readOut.op = "read_blob"
    /\ readOut.outcome = "Found"
    /\ \E k \in DOMAIN partEntries :
          /\ C31_ArchiveContacted(readOut.fetched, k)
          /\ C31_PeerContacted(readOut.fetched, k, 1)
          /\ C31_PeerContacted(readOut.fetched, k, 2)

\* the answer of peer `mode` for part k does not pass the checks of the
\* claim: the hash of its bytes is not the hash its header advertises, or
\* not the hash the part entry expects
C32_Mismatch(k, mode) ==
    LET payload == fetch_part(k, mode)
    IN  /\ payload.ok
        /\ \/ compute_hash(payload.bytes) # payload.headers
           \/ C31_Expected(k) # <<>> /\ compute_hash(payload.bytes) # C31_Expected(k)

C32_MismatchStep ==
    \A archive_mode \in ArchiveModes, peers \in PeerLists :
        (/\ readOut = NoOut
         /\ readOut'.op = "read_blob"
         /\ read_blob_body(TRUE, readOut'.range, archive_mode, peers))
        => \A k \in DOMAIN partEntries : \A i \in 1..Len(peers) :
              (C31_PeerContacted(readOut'.fetched, k, i) /\ C32_Mismatch(k, peers[i]))
              => IF i < Len(peers)
                 THEN C31_PeerContacted(readOut'.fetched, k, i + 1)
                 ELSE /\ readOut'.outcome = "PartNotFound"
                      /\ partEntries'[k] = partEntries[k]
                      /\ \A f \in partFiles' \ partFiles : f.path[1] # k

\* C32: bytes fetched from a peer are stored and returned only if their
\* recomputed SHA-256 equals the hash advertised in the header and, when the
\* part entry is known, the hash it expects; on a mismatch nothing of that
\* peer is stored or entered and the next peer is tried
C32_PeerBytesVerified == [][C32_MismatchStep]_vars

\* the file the entry of part k names is there and its bytes do not hash to
\* the sha256 of the entry
C33_Damaged(k) ==
    /\ partEntries[k].present
    /\ \E f \in partFiles :
          /\ \/ f.path = part_path(k, partEntries[k].sha256)
             \/ f.path = partEntries[k].external_path
          /\ compute_hash(f.bytes) # partEntries[k].sha256

C33_DamagedStep ==
    \A archive_mode \in ArchiveModes, peers \in PeerLists :
        (/\ readOut = NoOut
         /\ readOut'.op = "read_blob"
         /\ readOut'.outcome = "Found"
         /\ read_blob_body(TRUE, readOut'.range, archive_mode, peers))
        => \A k \in DOMAIN partEntries :
              (/\ C33_Damaged(k)
               /\ readOut'.body_range.start \div blobMeta.part_size <= k
               /\ k <= readOut'.body_range.end \div blobMeta.part_size)
              => \/ C31_ArchiveContacted(readOut'.fetched, k)
                 \/ \E i \in 1..Len(peers) : C31_PeerContacted(readOut'.fetched, k, i)

\* C33: a local part file is used only if it is present and its bytes hash
\* to the sha256 of the part entry; a file that is present but damaged is not
\* returned, the read of the part falls through to the archive or the peers
C33_DamagedFileNotUsed == [][C33_DamagedStep]_vars

\* C34: every body read_blob returns has exactly range.end - range.start + 1
\* bytes; parts that add up to another total, such as an inner part shorter
\* than part_size, make the read fail with an internal error
C34_BodyLengthIsRangeLength ==
    (/\ readOut.op = "read_blob"
     /\ readOut.outcome = "Found"
     /\ readOut.body_range # NoRange)
    => Len(readOut.body) = readOut.body_range.end - readOut.body_range.start + 1

\* ------------------------------------------------- properties (repair)
\* part k is local: its entry is there and names a file that is there
C35_PartLocal(entries, files, k) ==
    /\ entries[k].present
    /\ \E f \in files : f.path = entries[k].external_path

C35_RepairStep ==
    (readOut = NoOut /\ readOut'.op = "repair_path")
    => /\ \A h \in heads' \ heads :
             h.head_kind = "Meta"
             => \A k \in 0..(h.inline_data[8] - 1) :
                   C35_PartLocal(partEntries', partFiles', k)
       /\ readOut'.outcome # "ok" => heads' = heads

\* C35: repair_path_from_head applies the remote head locally only after
\* every missing part of the blob has been fetched from the source node and
\* stored with its part entry; if a fetch or a store of a part fails, the
\* error is returned and the local head is unchanged
C35_HeadAppliedAfterParts == [][C35_RepairStep]_vars

\* ------------------------------------------- properties (slot assignment)
\* the node list in the order of the node ids
C36_SortedNodes == <<"n1", "n2", "n3">>

\* C36: the slot assignment is a function of the node set: whatever the
\* order in which the nodes start, and whatever the order of the node list
\* each of them reads, once all have started the slots of every node are
\* those of the partition of [0, TOTAL_SLOTS) over the whole node set, and
\* every slot has at least one owner
C36_AssignmentDeterministic ==
    (\A n \in StartNodes : assigned[n] # NotAssigned)
    => /\ \A n \in StartNodes : assigned[n] = my_slots(C36_SortedNodes, n)
       /\ \A slot_id \in 0..(TOTAL_SLOTS - 1) :
             \E n \in StartNodes : slot_id \in assigned[n]

\* ------------------------------------------------ properties (init scan)
\* C37: every BlobMeta the init scan inserts has part_size >= 1, part_count
\* = ceil(size_bytes / part_size), part_count * part_size >= size_bytes,
\* part_count = 0 for size_bytes = 0, version = generation = the next
\* generation of the path, no part index and an archive_url; the library
\* and the server implementation give an entry the same part_count
C37_ScannedMetaWellFormed ==
    /\ \A m \in scanned :
          /\ m.part_size >= 1
          /\ m.part_count * m.part_size >= m.size_bytes
          /\ (m.part_count - 1) * m.part_size < m.size_bytes \/ m.size_bytes = 0
          /\ m.size_bytes = 0 => m.part_count = 0
          /\ m.version = m.generation
          /\ m.generation = Cardinality({h \in scanned : h.path = m.path
                                                        /\ h.generation <= m.generation})
          /\ m.part_index_state = "None"
          /\ m.archive_url[1] = "Some"
    /\ \A m1, m2 \in scanned :
          (m1.size_bytes = m2.size_bytes /\ m1.part_size = m2.part_size)
          => m1.part_count = m2.part_count

\* ------------------------------------------- properties (local head first)
C38_ResolvesFromLocalHead ==
    \A n \in Nodes, p \in Paths, replicas \in SeqsOf(Nodes) :
        get_current_head(store[n], p) # NoRow
        => /\ ensure_head_available(n, p, replicas) = get_current_head(store[n], p)
           /\ read_blob_outcome(n, p, replicas).version
                 = get_current_head(store[n], p).version

C38_LocalHeadsUnchangedStep ==
    \A n \in Nodes, p \in Paths, replicas \in SeqsOf(Nodes) :
        (get_current_head(store[n], p) # NoRow /\ read_blob(n, p, replicas))
        => store' = store

\* C38: if the local store has a head of the path, read_blob resolves from
\* it, whatever generation a peer holds: the outcome is that of the local
\* head, which no answer of a peer could change, and the local heads are
\* left as they are; the peers are asked only when the local store has none
C38_LocalHeadFirst ==
    /\ []C38_ResolvesFromLocalHead
    /\ [][C38_LocalHeadsUnchangedStep]_vars

\* a node whose slot is open holds a head of the path and a peer holds a
\* head of a higher generation
C38_Witness ==
    \E n, m \in Nodes, p \in Paths :
        /\ n # m
        /\ n \in hasSlot
        /\ get_current_head(store[n], p) # NoRow
        /\ fetch_remote_head(m, p) # NoRow
        /\ fetch_remote_head(m, p).version > get_current_head(store[n], p).version

\* ------------------------------------------- properties (failed init runs)
\* C39: an init run that returns an error (the current node is not in the
\* node list of the record, the init scan fails) leaves the bootstrap record
\* of the registry as it was before the run started: the run has not written
\* the record, which is not the proposal of the run
C39_FailedRunLeavesRecord ==
    \A i \in RunIds :
        (run[i].pc = "err" /\ run[i].result = NoState)
        => /\ ~run[i].won
           /\ bootstrap # encode_bootstrap(run[i].proposed)

\* ------------------------------------------- properties (proxied reads)
\* C40: a GET received by a node that does not hold the slot of the path
\* returns the status and the bytes that the same GET, with the same start
\* and end, returns when the healthy replica it is forwarded to serves it
\* directly; without a healthy replica it fails with InsufficientReplicas
C40_Direct(query) ==
    LET start == IF query.start = NoRange.start THEN 0 ELSE query.start
        end == IF query.end = NoRange.end THEN objMeta.size ELSE query.end
    IN  stream_blob(objMeta, 1, 0, start, end, <<>>)

C40_ProxiedGetEqualsDirect ==
    readOut.op = "proxy_to_replica"
    => IF get_healthy_replicas = <<>>
       THEN readOut.outcome = "404 Insufficient replicas"
       ELSE /\ readOut.outcome = C40_Direct(readOut.range).outcome
            /\ readOut.body = C40_Direct(readOut.range).body

====
